---- MODULE Spec2Model ----
(***************************************************************************)
(* Aegean source finder (src/aegean.py): the flood-fill segmenter          *)
(* (explore / flood / gen_flood_wrap / Island.list2map), the parameter     *)
(* estimator and island fit driver (estimate_parinfo / fit_island), and    *)
(* the command-line driver with its island dispatcher (__main__ /          *)
(* find_sources_in_image / fit_islands).                                   *)
(*                                                                         *)
(* Pixels are pairs <<x, y>> indexed as the numpy arrays are: x is the     *)
(* first (slow) index, y the second.  Flux values are small integers; the  *)
(* IEEE not-a-number is the value NaN, on which every comparison is false. *)
(***************************************************************************)
EXTENDS Integers, Sequences, FiniteSets, TLC

\* ---------------------------------------------------------------- bounds
NX == 2            \* image shape[0] of the segmenter runs
NY == 3            \* image shape[1] of the segmenter runs
MaxFlux == 4       \* largest flux of a lit pixel
MaxLit == 2        \* at most this many pixels differ from the flat background
MaxIslands == 61   \* the segmenter yields at most this many islands to the driver
MaxRows == 2       \* a catalogue of positions has at most this many rows
MaxCores == 2      \* the --cores option ranges over 1 .. MaxCores
MaxHot == 2        \* at most this many pixels of a fitted island pass the seed clip

\* ------------------------------------------------------ program constants
PEAKED == 1
QUEUED == 2
VISITED == 4
group_size == 20
FITERRSMALL == 1
FITERR == 2
FIXED2PSF == 4
FIXEDCIRCULAR == 8
NOTFIT == 16

\* exitcode while the process is still running
Running == 0 - 1

\* cores=None, the default of find_sources_in_image and of --cores
CoresNone == 0 - 1

\* A value standing for IEEE NaN; it lies outside every flux range used.
NaN == 0 - 1000

IsNaN(v) == v = NaN

\* ------------------------------------------------------------- variables
VARIABLES
  data,        \* gen_flood_wrap: data.pixels, [pixel -> flux]
  rmsimg,      \* gen_flood_wrap: rmsimg, [pixel -> rms]
  innerclip,   \* seed clip
  outerclip,   \* flood clip
  status,      \* the status byte of every pixel
  peaks,       \* the sorted list of seed pixels
  pk,          \* number of peaks already taken by the for loop
  lastqueue,   \* the queue of the most recent flood() call
  lastblob,    \* the blob returned by the most recent flood() call
  yielded,     \* the islands yielded so far, in yield order
  spc          \* position of the generator: "idle", "start", "flood", "done"

VARIABLES
  dpc,          \* position of the program: "idle", "main", "find", "loop", "drain",
                \* "returned", "measured", "exited"
  exitcode,     \* the exit status of the process, Running until it ends
  cause,        \* the last error or warning logged, "ok" after a normal end
  cores,        \* find_sources_in_image: cores, CoresNone for None
  doislandflux, \* find_sources_in_image: doislandflux
  nisl,         \* how many islands gen_flood_wrap yields for the input image
  odd,          \* position in the yield order of the island of kind oddKind (0: none)
  oddKind,      \* "dot", "rowridge" or "colridge"
  bad,          \* position in the yield order of the island whose fit raises (0: none)
  taken,        \* islands pulled from the generator so far
  isle_num,     \* find_sources_in_image: isle_num
  island_group, \* find_sources_in_image: island_group
  queue,        \* cores = 1: the list `queue` of per-island results
  pqueue,       \* TRUE when `queue` is a pprocess.Queue, FALSE when it is a list
  batches,      \* cores > 1: the work units handed to fit_parallel, in submission order
  arrived,      \* cores > 1: the batch numbers in the order their workers finished
  drained,      \* cores > 1: how many results `for src in queue` has received
  sources,      \* find_sources_in_image: sources
  measured,     \* measure_catalog_fluxes: sources
  written,      \* the catalogue lines written to outfile
  fitted        \* the isle_num of every fit_island call, in call order per process

drvvars == <<dpc, exitcode, cause, cores, doislandflux, measured, pqueue, nisl, odd, oddKind,
             bad, taken, isle_num, island_group, queue, batches, arrived, drained,
             sources, written, fitted>>

VARIABLES
  isle,         \* fit_island: isle.pixels, the island sub-image [cell -> flux or NaN]
  ishape,       \* isle.pixels.shape
  icurve,       \* fit_island: icurve, the curvature over the island box
  irms,         \* fit_island: rms, the rms over the island box
  pixbeam,      \* the pixel beam at the island, in 1/1000 pixel
  csigma,       \* the curvature clip
  iclip,        \* <<innerclip, outerclip>> of island_data.scalars
  parinfo,      \* the list estimate_parinfo returns, six records per candidate
  max_summits,  \* NoLimit for None
  fitflux,      \* island_data.doislandflux
  mpfit_calls,  \* how many times multi_gauss / mpfit was called
  mp_perror,    \* mp.perror as fit_island leaves it
  fit_sources,  \* the list fit_island returns
  fpc           \* "idle", "estimate", "fit", "done", "raised"

fitvars == <<isle, ishape, icurve, irms, pixbeam, csigma, iclip, parinfo, max_summits,
             fitflux, mpfit_calls, mp_perror, fit_sources, fpc>>

VARIABLES
  bkgimg,       \* make_bkg_rms_image: the background image
  mesh,         \* <<width_x, width_y>>, the mesh widths in pixels
  forced_rms    \* the rms option; 0 for None

bkgvars == <<bkgimg, mesh, forced_rms>>

VARIABLES
  meta_arg,     \* update_meta_data: the caller's dictionary, [given |-> FALSE] for None
  meta_passed,  \* a copy of the caller's dictionary, taken before the first call
  meta,         \* the dictionary the last call returned
  meta_first,   \* a copy of the dictionary the first call returned
  now,          \* the clock, in seconds
  mcalls        \* the number of calls of update_meta_data so far

metavars == <<meta_arg, meta_passed, meta, meta_first, now, mcalls>>

VARIABLES
  source_in,    \* fit_island: the component as it is before line 1149; <<>> for none
  source,       \* fit_island: the component, through lines 1149-1154
  pa_arg,       \* pa_limit: the argument of the call
  lim_pa,       \* pa_limit: its local variable pa
  pa_for,       \* the caller of pa_limit: "pa" (line 1151), "err_pa" (line 1154),
                \* "arg" (a call of pa_limit on its own)
  shpc          \* position: "idle", "fix", "up", "up_body", "down", "down_body",
                \* "ret", "done"

shapevars == <<source_in, source, pa_arg, lim_pa, pa_for, shpc>>

segvars == <<data, rmsimg, innerclip, outerclip, status, peaks, pk,
             lastqueue, lastblob, yielded, spc>>

vars == <<segvars, drvvars, fitvars, bkgvars, metavars, shapevars>>

\* ------------------------------------------------------------ arithmetic
\* (v \div b) % 2 = 1 : the python test  v & b  for a one-bit b
HasBit(v, b) == (v \div b) % 2 = 1

\* v |= b
SetBit(v, b) == IF HasBit(v, b) THEN v ELSE v + b

\* numpy  d / r >= c  for integers d, r, c (NaN propagates; x/0 is +-inf or nan)
RatioGE(d, r, c) ==
  IF IsNaN(d) \/ IsNaN(r) THEN FALSE
  ELSE IF r > 0 THEN d >= c * r
  ELSE IF r < 0 THEN d <= c * r
  ELSE d > 0

\* numpy  d / r > c
RatioGT(d, r, c) ==
  IF IsNaN(d) \/ IsNaN(r) THEN FALSE
  ELSE IF r > 0 THEN d > c * r
  ELSE IF r < 0 THEN d < c * r
  ELSE d > 0

Pix(nx, ny) == (0 .. nx - 1) \X (0 .. ny - 1)

\* data.shape, and line 400: bounds = (shape[0]-1, shape[1]-1)
Shape(d) ==
  <<Cardinality({ q[1] : q \in DOMAIN d }), Cardinality({ q[2] : q \in DOMAIN d })>>
\* bounds taken as the shape itself
BoundsAsShape(d) == Shape(d)

Bounds(d) == <<Shape(d)[1] - 1, Shape(d)[2] - 1>>

SeqToSet(s) == { s[i] : i \in 1 .. Len(s) }

\* ------------------------------------------------------------- segmenter
\* One of the four neighbour tests of explore(): queue the pixel `new` when the
\* guard `g` (x > 0, x < bounds[0], ...) holds, it is not yet QUEUED and it
\* passes the cutoff.  sq is the pair [status, queue].
\* one neighbour of explore() appended without its QUEUED mark
ExploreOneUnmarked(d, r, sq, cutoffratio, g, new) ==
  IF g /\ ~HasBit(sq.status[new], QUEUED)
       /\ RatioGE(d[new], r[new], cutoffratio)
  THEN [status |-> sq.status, queue |-> Append(sq.queue, new)]
  ELSE sq

ExploreOne(d, r, sq, cutoffratio, g, new) ==
  IF g /\ ~HasBit(sq.status[new], QUEUED)
       /\ RatioGE(d[new], r[new], cutoffratio)
  THEN [status |-> [sq.status EXCEPT ![new] = SetBit(@, QUEUED)],
        queue  |-> Append(sq.queue, new)]
  ELSE sq

\* explore() whose last neighbour is the diagonal one
ExploreDiagonal(d, r, sq, bounds, cutoffratio, pixel) ==
  LET x == pixel[1]
      y == pixel[2]
      s1 == ExploreOne(d, r, sq, cutoffratio, x > 0, <<x - 1, y>>)
      s2 == ExploreOne(d, r, s1, cutoffratio, x < bounds[1], <<x + 1, y>>)
      s3 == ExploreOne(d, r, s2, cutoffratio, y > 0, <<x, y - 1>>)
      s4 == ExploreOne(d, r, s3, cutoffratio, x < bounds[1] /\ y < bounds[2], <<x + 1, y + 1>>)
  IN  s4

\* explore() without its last neighbour
ExploreSkipsLast(d, r, sq, bounds, cutoffratio, pixel) ==
  LET x == pixel[1]
      y == pixel[2]
      s1 == ExploreOne(d, r, sq, cutoffratio, x > 0, <<x - 1, y>>)
      s2 == ExploreOne(d, r, s1, cutoffratio, x < bounds[1], <<x + 1, y>>)
      s3 == ExploreOne(d, r, s2, cutoffratio, y > 0, <<x, y - 1>>)
  IN  s3

\* explore(): the neighbours in the order x-1, x+1, y-1, y+1
explore(d, r, sq, bounds, cutoffratio, pixel) ==
  LET x == pixel[1]
      y == pixel[2]
      s1 == ExploreOne(d, r, sq, cutoffratio, x > 0, <<x - 1, y>>)
      s2 == ExploreOne(d, r, s1, cutoffratio, x < bounds[1], <<x + 1, y>>)
      s3 == ExploreOne(d, r, s2, cutoffratio, y > 0, <<x, y - 1>>)
      s4 == ExploreOne(d, r, s3, cutoffratio, y < bounds[2], <<x, y + 1>>)
  IN  s4

\* the loop  `for pixel in queue`  of flood(), from queue position i on
RECURSIVE FloodLoop(_, _, _, _, _, _, _)
FloodLoop(d, r, sq, bounds, cutoffratio, i, blob) ==
  IF i > Len(sq.queue) THEN [status |-> sq.status, queue |-> sq.queue, blob |-> blob]
  ELSE LET pixel == sq.queue[i] IN
       IF HasBit(sq.status[pixel], VISITED)
       THEN FloodLoop(d, r, sq, bounds, cutoffratio, i + 1, blob)
       ELSE LET marked == [status |-> [sq.status EXCEPT ![pixel] = SetBit(@, VISITED)],
                           queue  |-> sq.queue]
            IN  FloodLoop(d, r, explore(d, r, marked, bounds, cutoffratio, pixel),
                          bounds, cutoffratio, i + 1, Append(blob, pixel))

\* flood(): returns the blob, with the status array and the queue it leaves
flood(d, r, st, bounds, peak, cutoffratio) ==
  IF HasBit(st[peak], VISITED)
  THEN [status |-> st, queue |-> <<>>, blob |-> <<>>]
  ELSE FloodLoop(d, r,
                 [status |-> [st EXCEPT ![peak] = SetBit(@, QUEUED)], queue |-> <<peak>>],
                 bounds, cutoffratio, 1, <<>>)

\* the seed test with >= in place of >
SeedTestGE(d, r, p, clip) == RatioGE(d[p], r[p], clip)

\* np.where(data.pixels/rmsimg > innerclip)
SeedTest(d, r, p, clip) == RatioGT(d[p], r[p], clip)

SeedSet(d, r, clip) == { p \in DOMAIN d : SeedTest(d, r, p, clip) }

\* python tuple order on (flux, x, y)
TupleLess(a, b) ==
  \/ a[1] < b[1]
  \/ a[1] = b[1] /\ a[2] < b[2]
  \/ a[1] = b[1] /\ a[2] = b[2] /\ a[3] < b[3]

\* the flux-major order with ties in ascending scan order
RECURSIVE SortFluxThenScan(_)
SortFluxThenScan(S) ==
  IF S = {} THEN <<>>
  ELSE LET m == CHOOSE a \in S : \A b \in S \ {a} :
                    \/ b[1] < a[1]
                    \/ b[1] = a[1] /\ TupleLess(a, b)
       IN  <<m>> \o SortFluxThenScan(S \ {m})

\* peaks.sort(reverse=True): the largest tuple first
RECURSIVE SortReverse(_)
SortReverse(S) ==
  IF S = {} THEN <<>>
  ELSE LET m == CHOOSE a \in S : \A b \in S \ {a} : TupleLess(b, a)
       IN  <<m>> \o SortReverse(S \ {m})

\* lines 390-397: the seed list, sorted, reduced to the pixel coordinates
MakePeaks(d, r, clip) ==
  LET tuples == { <<d[p], p[1], p[2]>> : p \in SeedSet(d, r, clip) }
      sorted == SortReverse(tuples)
  IN  [i \in 1 .. Len(sorted) |-> <<sorted[i][2], sorted[i][3]>>]

SetMin(S) == CHOOSE a \in S : \A b \in S : a <= b
SetMax(S) == CHOOSE a \in S : \A b \in S : a >= b

\* the sub-image filled with zeros in place of NaN
List2MapZeroFilled(d, pixlist) ==
  LET xs == { pixlist[i][1] : i \in 1 .. Len(pixlist) }
      ys == { pixlist[i][2] : i \in 1 .. Len(pixlist) }
      xmin == SetMin(xs)
      xmax == SetMax(xs)
      ymin == SetMin(ys)
      ymax == SetMax(ys)
      inlist == SeqToSet(pixlist)
  IN  [pixels |-> [q \in (0 .. xmax - xmin) \X (0 .. ymax - ymin) |->
                      IF <<q[1] + xmin, q[2] + ymin>> \in inlist
                      THEN d[<<q[1] + xmin, q[2] + ymin>>] ELSE 0],
       xmin |-> xmin, xmax |-> xmax, ymin |-> ymin, ymax |-> ymax,
       blob |-> pixlist]

\* Island.list2map(): the NaN-filled bounding sub-image of a pixel list
list2map(d, pixlist) ==
  LET xs == { pixlist[i][1] : i \in 1 .. Len(pixlist) }
      ys == { pixlist[i][2] : i \in 1 .. Len(pixlist) }
      xmin == SetMin(xs)
      xmax == SetMax(xs)
      ymin == SetMin(ys)
      ymax == SetMax(ys)
      inlist == SeqToSet(pixlist)
  IN  [pixels |-> [q \in (0 .. xmax - xmin) \X (0 .. ymax - ymin) |->
                      IF <<q[1] + xmin, q[2] + ymin>> \in inlist
                      THEN d[<<q[1] + xmin, q[2] + ymin>>] ELSE NaN],
       xmin |-> xmin, xmax |-> xmax, ymin |-> ymin, ymax |-> ymax,
       blob |-> pixlist]

\* the driver is not running
DrvIdle ==
  /\ dpc = "idle" /\ exitcode = Running /\ cause = "" /\ cores = 1
  /\ doislandflux = FALSE /\ nisl = 0 /\ odd = 0 /\ oddKind = "dot" /\ bad = 0
  /\ taken = 0 /\ isle_num = 0 /\ island_group = <<>> /\ queue = <<>>
  /\ batches = <<>> /\ arrived = <<>> /\ drained = 0 /\ sources = <<>>
  /\ measured = <<>> /\ written = <<>> /\ fitted = <<>> /\ pqueue = FALSE

\* no background is being made
BkgIdle == bkgimg = <<>> /\ mesh = <<0, 0>> /\ forced_rms = 0

MetaIdle ==
  /\ meta_arg = [given |-> FALSE, dict |-> <<>>] /\ meta_passed = <<>>
  /\ meta = <<>> /\ meta_first = <<>> /\ now = 0 /\ mcalls = 0

\* no component is being shaped and pa_limit is not running
ShapeIdle ==
  /\ source_in = <<>> /\ source = <<>> /\ pa_arg = [m |-> 0, e |-> 0]
  /\ lim_pa = [m |-> 0, e |-> 0] /\ pa_for = "arg" /\ shpc = "idle"

\* no island is being fitted
FitIdle ==
  /\ isle = <<>> /\ ishape = <<0, 0>> /\ icurve = <<>> /\ irms = <<>>
  /\ pixbeam = [a |-> 0, b |-> 0, pa |-> 0] /\ csigma = 0 /\ iclip = <<0, 0>> /\ parinfo = <<>>
  /\ max_summits = 0 /\ fitflux = FALSE /\ mpfit_calls = 0 /\ mp_perror = <<>>
  /\ fit_sources = <<>> /\ fpc = "idle"

\* the segmenter is not running
SegIdle ==
  /\ data = <<>> /\ rmsimg = <<>> /\ innerclip = 0 /\ outerclip = 0
  /\ status = <<>> /\ peaks = <<>> /\ pk = 0 /\ lastqueue = <<>>
  /\ lastblob = <<>> /\ yielded = <<>> /\ spc = "idle"

\* --------------------------------------------------- segmenter: the machine
\* a lit pixel <<flux, rms>>: any flux over rms 1, or the top flux over an rms of NaN
LitVals == { <<f, 1>> : f \in 1 .. MaxFlux } \cup { <<MaxFlux, NaN>> }

\* <<innerclip, outerclip>>: seed above flood, seed equal to flood, seed below flood
ClipPairs == { <<2, 1>>, <<2, 2>>, <<1, 2>> }

\* three lit pixels in a 2x2 block: an island that does not fill its box
Elbows ==
  { L \in SUBSET Pix(NX, NY) :
      /\ Cardinality(L) = 3
      /\ \E x \in 0 .. NX - 2 : \E y \in 0 .. NY - 2 : L \subseteq {x, x + 1} \X {y, y + 1} }

\* an image with the pixels of lit set by f and 0 over rms 1 elsewhere
SegImage(lit, f) ==
  [data |-> [p \in Pix(NX, NY) |-> IF p \in lit THEN f[p][1] ELSE 0],
   rms  |-> [p \in Pix(NX, NY) |-> IF p \in lit THEN f[p][2] ELSE 1]]

\* the images: up to MaxLit lit pixels of any value, or an elbow at the top flux
SegInit ==
  /\ \/ \E lit \in { L \in SUBSET Pix(NX, NY) : Cardinality(L) <= MaxLit } :
          \E f \in [lit -> LitVals] :
            data = SegImage(lit, f).data /\ rmsimg = SegImage(lit, f).rms
     \/ \E lit \in Elbows :
          /\ data = SegImage(lit, [p \in lit |-> <<MaxFlux, 1>>]).data
          /\ rmsimg = SegImage(lit, [p \in lit |-> <<MaxFlux, 1>>]).rms
  /\ \E c \in ClipPairs : innerclip = c[1] /\ outerclip = c[2]
  /\ status = [p \in Pix(NX, NY) |-> 0]
  /\ peaks = <<>>
  /\ pk = 0
  /\ lastqueue = <<>>
  /\ lastblob = <<>>
  /\ yielded = <<>>
  /\ spc = "start"
  /\ DrvIdle
  /\ FitIdle
  /\ BkgIdle
  /\ MetaIdle
  /\ ShapeIdle

\* lines 382-400: mark the PEAKED pixels, build and sort the seed list;
\* the generator returns at once when there is no seed
SegStart ==
  /\ spc = "start"
  /\ status' = [p \in DOMAIN data |->
                  IF SeedTest(data, rmsimg, p, innerclip) THEN PEAKED ELSE 0]
  /\ peaks' = MakePeaks(data, rmsimg, innerclip)
  /\ spc' = IF Len(peaks') = 0 THEN "done" ELSE "flood"
  /\ UNCHANGED <<data, rmsimg, innerclip, outerclip, pk, lastqueue, lastblob, yielded>>
  /\ UNCHANGED <<drvvars, fitvars, bkgvars, metavars, shapevars>>

\* lines 403-413, one iteration of `for peak in peaks` whose flood is empty
SegSkipPeak ==
  /\ spc = "flood"
  /\ pk < Len(peaks)
  /\ LET res == flood(data, rmsimg, status, Bounds(data), peaks[pk + 1], outerclip) IN
       /\ Len(res.blob) < 1
       /\ status' = res.status
       /\ lastqueue' = res.queue
       /\ lastblob' = res.blob
  /\ pk' = pk + 1
  /\ UNCHANGED <<data, rmsimg, innerclip, outerclip, peaks, yielded, spc>>
  /\ UNCHANGED <<drvvars, fitvars, bkgvars, metavars, shapevars>>

\* lines 403-413, one iteration of `for peak in peaks` that yields an island
SegYield ==
  /\ spc = "flood"
  /\ pk < Len(peaks)
  /\ LET res == flood(data, rmsimg, status, Bounds(data), peaks[pk + 1], outerclip) IN
       /\ Len(res.blob) >= 1
       /\ status' = res.status
       /\ lastqueue' = res.queue
       /\ lastblob' = res.blob
       /\ yielded' = Append(yielded, list2map(data, res.blob))
  /\ pk' = pk + 1
  /\ UNCHANGED <<data, rmsimg, innerclip, outerclip, peaks, spc>>
  /\ UNCHANGED <<drvvars, fitvars, bkgvars, metavars, shapevars>>

\* the for loop is exhausted: the generator stops
SegFinish ==
  /\ spc = "flood"
  /\ pk = Len(peaks)
  /\ spc' = "done"
  /\ UNCHANGED <<data, rmsimg, innerclip, outerclip, status, peaks, pk,
                 lastqueue, lastblob, yielded>>
  /\ UNCHANGED <<drvvars, fitvars, bkgvars, metavars, shapevars>>

SegNext == SegStart \/ SegSkipPeak \/ SegYield \/ SegFinish

SpecSeg == SegInit /\ [][SegNext]_vars

\* ------------------------------------------------- segmenter: properties
Neigh4(p) == { <<p[1] - 1, p[2]>>, <<p[1] + 1, p[2]>>, <<p[1], p[2] - 1>>, <<p[1], p[2] + 1>> }

RECURSIVE Grow(_, _)
Grow(R, S) ==
  LET N == { q \in S \ R : \E p \in R : q \in Neigh4(p) }
  IN  IF N = {} THEN R ELSE Grow(R \cup N, S)

\* the 4-connected component of S that holds p
Component(p, S) == Grow({p}, S)

Connected4(S) == S = {} \/ Component(CHOOSE p \in S : TRUE, S) = S

IslandSet(k) == SeqToSet(yielded[k].blob)

\* the pixels whose ratio is finite and at least / strictly above the clip
AtLeast(clip) ==
  { p \in DOMAIN data : /\ ~IsNaN(data[p]) /\ ~IsNaN(rmsimg[p])
                        /\ rmsimg[p] > 0 /\ data[p] >= clip * rmsimg[p] }

Above(clip) ==
  { p \in DOMAIN data : /\ ~IsNaN(data[p]) /\ ~IsNaN(rmsimg[p])
                        /\ rmsimg[p] > 0 /\ data[p] > clip * rmsimg[p] }

PeakedSet == { p \in DOMAIN status : HasBit(status[p], PEAKED) }

\* C1: the pixel sets of the islands yielded by one run of gen_flood_wrap are
\* pairwise disjoint, and each of them is 4-connected.
C1_DisjointConnected ==
  /\ \A i, j \in 1 .. Len(yielded) : i # j => IslandSet(i) \cap IslandSet(j) = {}
  /\ \A i \in 1 .. Len(yielded) :
        /\ Connected4(IslandSet(i))
        /\ Cardinality(IslandSet(i)) = Len(yielded[i].blob)

\* a finished run that has yielded two islands
C1_Witness ==
  /\ spc = "done"
  /\ Len(yielded) >= 2
  /\ \A i \in 1 .. Len(yielded) : IslandSet(i) # {}

\* C2: with seed_clip >= flood_clip every yielded island is exactly the maximal
\* 4-connected set of pixels with data/rms >= flood_clip around its starting
\* seed; no 4-neighbour passing the flood threshold is left outside.
C2_MaximalIsland ==
  innerclip >= outerclip =>
    \A i \in 1 .. Len(yielded) :
      /\ IslandSet(i) = Component(yielded[i].blob[1], AtLeast(outerclip))
      /\ \A p \in IslandSet(i) : \A q \in Neigh4(p) \cap AtLeast(outerclip) : q \in IslandSet(i)

\* a finished run, seed above flood, with an island grown beyond its seeds
C2_Witness ==
  /\ spc = "done"
  /\ innerclip > outerclip
  /\ \E i \in 1 .. Len(yielded) :
        /\ Cardinality(IslandSet(i)) >= 2
        /\ IslandSet(i) \ PeakedSet # {}

\* C3 as stated: a pixel is a seed iff data/rms >= seed_clip with rms finite
\* (a ratio equal to the clip seeds), so that with seed_clip = flood_clip
\* the seeds are the flood-eligible pixels.
C3_Original ==
  spc # "start" =>
    /\ SeqToSet(peaks) = AtLeast(innerclip)
    /\ (innerclip = outerclip => SeqToSet(peaks) = AtLeast(outerclip))

\* C3 amended: a pixel is a seed iff data/rms > seed_clip (strictly) with rms
\* finite; every island starts at such a pixel and every such pixel ends in
\* an island; with seed_clip = flood_clip the seeds are the flood-eligible
\* pixels whose ratio is strictly above the clip.
C3_StrictSeeds ==
  spc # "start" =>
    /\ SeqToSet(peaks) = Above(innerclip)
    /\ Len(peaks) = Cardinality(Above(innerclip))
    /\ PeakedSet = Above(innerclip)
    /\ \A i \in 1 .. Len(yielded) : yielded[i].blob[1] \in Above(innerclip)
    /\ (spc = "done" => \A p \in Above(innerclip) : \E i \in 1 .. Len(yielded) : p \in IslandSet(i))
    /\ (innerclip = outerclip => SeqToSet(peaks) = AtLeast(outerclip) \cap Above(innerclip))

\* a finished run over an image with a pixel exactly at the seed clip, flooded
\* into an island without being a seed
C3_Witness ==
  /\ spc = "done"
  /\ innerclip = outerclip
  /\ \E p \in AtLeast(innerclip) \ Above(innerclip) : \E i \in 1 .. Len(yielded) : p \in IslandSet(i)

FluxTuple(p) == <<data[p], p[1], p[2]>>

\* row-major scan position of a pixel
ScanIndex(p) == p[1] * NY + p[2]

\* C4 as stated: islands come in decreasing order of the flux of their brightest
\* seed, seeds of equal flux being taken in ascending scan order.
C4_Original ==
  \A i, j \in 1 .. Len(yielded) :
    i < j => LET a == yielded[i].blob[1]
                 b == yielded[j].blob[1]
             IN  \/ data[a] > data[b]
                 \/ data[a] = data[b] /\ ScanIndex(a) < ScanIndex(b)

\* C4 amended: islands come in decreasing order of the flux of their brightest
\* seed, and seeds of equal flux are taken in DESCENDING (x, y) order (the
\* reverse of the scan order); the order is a total one, hence deterministic.
C4_YieldOrder ==
  /\ \A i, j \in 1 .. Len(peaks) :
        i < j => TupleLess(FluxTuple(peaks[j]), FluxTuple(peaks[i]))
  /\ \A i, j \in 1 .. Len(yielded) :
        i < j => TupleLess(FluxTuple(yielded[j].blob[1]), FluxTuple(yielded[i].blob[1]))
  /\ \A i \in 1 .. Len(yielded) :
        \A p \in IslandSet(i) \cap PeakedSet : data[p] <= data[yielded[i].blob[1]]

\* a finished run with two islands whose starting seeds have the same flux,
\* the first of them later in scan order
C4_Witness ==
  /\ spc = "done"
  /\ \E i, j \in 1 .. Len(yielded) :
        /\ i < j
        /\ data[yielded[i].blob[1]] = data[yielded[j].blob[1]]
        /\ ScanIndex(yielded[i].blob[1]) > ScanIndex(yielded[j].blob[1])

\* ------------------------------------------- driver: islands and their fit
\* The islands the segmenter hands to the driver are "blob"s (3 x 3 pixels),
\* except the one at position `odd` of the yield order, which is a single pixel
\* ("dot"), a ridge along the second axis ("rowridge", shape (1, 3)) or a ridge
\* along the first axis ("colridge", shape (3, 1)).
Kind(idx) == IF idx = odd THEN oddKind ELSE "blob"

\* len(i): the first dimension of the island sub-image
Rows(kind) == IF kind = "blob" THEN 3 ELSE IF kind = "colridge" THEN 3 ELSE 1

\* the number of pixels of the island
NPix(kind) == IF kind = "blob" THEN 9 ELSE IF kind = "dot" THEN 1 ELSE 3

\* the number of summits fit_island finds: one for a ridge or a dot, and
\* 0, 1 or 2 for the blobs, after their curvature
NComp(idx) == IF Kind(idx) = "blob" THEN idx % 3 ELSE 1

\* IslandFittingData(isle_num, i, scalars, offsets, doislandflux)
IslandFittingData(num, idx, doflux) == [isle_num |-> num, idx |-> idx, doislandflux |-> doflux]

\* fit_island as the driver sees it: it raises, or returns the list of the
\* island's components (source = 0 .. n-1) followed, when asked for, by the
\* island record (source = -1); an island without summits returns [].
fit_island_result(island_data) ==
  LET n == NComp(island_data.idx)
      comps == [j \in 1 .. n |-> [island |-> island_data.isle_num, source |-> j - 1]]
  IN  IF island_data.idx = bad THEN [raised |-> TRUE, sources |-> <<>>]
      ELSE IF n < 1 THEN [raised |-> FALSE, sources |-> <<>>]
      ELSE IF island_data.doislandflux
           THEN [raised |-> FALSE,
                 sources |-> Append(comps, [island |-> island_data.isle_num, source |-> 0 - 1])]
           ELSE [raised |-> FALSE, sources |-> comps]

\* fit_islands without sources.extend(res) for the first island of a batch
RECURSIVE FitIslandsDropFirst(_, _, _, _)
FitIslandsDropFirst(islands, i, acc, log) ==
  IF i > Len(islands) THEN [raised |-> FALSE, sources |-> acc, called |-> log]
  ELSE LET res == fit_island_result(islands[i])
           log2 == Append(log, islands[i].isle_num)
       IN  IF res.raised THEN [raised |-> TRUE, sources |-> <<>>, called |-> log2]
           ELSE FitIslandsDropFirst(islands, i + 1,
                                    IF i = 1 THEN acc ELSE acc \o res.sources, log2)

\* fit_islands(islands): the loop from island i on; an exception of fit_island
\* is not caught and ends the call
RECURSIVE fit_islands(_, _, _, _)
fit_islands(islands, i, acc, log) ==
  IF i > Len(islands) THEN [raised |-> FALSE, sources |-> acc, called |-> log]
  ELSE LET res == fit_island_result(islands[i])
           log2 == Append(log, islands[i].isle_num)
       IN  IF res.raised THEN [raised |-> TRUE, sources |-> <<>>, called |-> log2]
           ELSE fit_islands(islands, i + 1, acc \o res.sources, log2)

\* a comparison by island alone
CmpLessIslandOnly(a, b) == a.island < b.island

\* OutputSource.__cmp__ < 0
CmpLess(a, b) ==
  \/ a.island < b.island
  \/ a.island = b.island /\ a.source < b.source

\* sorted(sources): a stable sort by __cmp__
RECURSIVE SortInsert(_, _)
SortInsert(sorted, x) ==
  IF sorted = <<>> THEN <<x>>
  ELSE IF CmpLess(x, sorted[Len(sorted)])
       THEN Append(SortInsert(SubSeq(sorted, 1, Len(sorted) - 1), x), sorted[Len(sorted)])
       ELSE Append(sorted, x)

RECURSIVE SortedCatalogue(_)
SortedCatalogue(srcs) ==
  IF srcs = <<>> THEN <<>>
  ELSE SortInsert(SortedCatalogue(SubSeq(srcs, 1, Len(srcs) - 1)), srcs[Len(srcs)])

\* `for src in queue: if src: sources.extend(src)` over a python list
RECURSIVE ExtendAll(_, _)
ExtendAll(q, i) ==
  IF i > Len(q) THEN <<>> ELSE q[i] \o ExtendAll(q, i + 1)

\* pprocess.Queue(limit=cores): a work unit starts only while fewer than
\* `limit` workers are active
RunningCount == Cardinality({ b \in 1 .. Len(batches) : batches[b].state = "running" })

CanSubmit == RunningCount < cores

\* a batch handed over twice
SubmittedTwice(group) ==
  batches \o << [islands |-> group, state |-> "running", res |-> <<>>],
                [islands |-> group, state |-> "running", res |-> <<>>] >>

\* fit_parallel(island_group): hand the batch to a worker
Submitted(group) == Append(batches, [islands |-> group, state |-> "running", res |-> <<>>])

\* ----------------------------------------------------- driver: the machine
\* positions of the yield order at which the special islands are tried
Special(n) == { k \in {0, 1, group_size + 1, n} : k <= n }

\* the runs differ in the number of islands the generator yields: up to three
\* full groups, and one or two islands less or more than that
DrvInit ==
  /\ dpc = "main" /\ exitcode = Running /\ cause = ""
  /\ cores \in {CoresNone} \cup (1 .. MaxCores)
  /\ doislandflux \in BOOLEAN
  /\ nisl \in { n \in 0 .. MaxIslands : n % group_size \in {0, 1, 2, group_size - 1} }
  /\ odd \in Special(nisl)
  /\ oddKind \in IF odd = 0 THEN {"dot"} ELSE {"dot", "rowridge", "colridge"}
  /\ bad \in Special(nisl)
  /\ taken = 0 /\ isle_num = 0 /\ island_group = <<>> /\ queue = <<>>
  /\ batches = <<>> /\ arrived = <<>> /\ drained = 0 /\ sources = <<>>
  /\ measured = <<>> /\ written = <<>> /\ fitted = <<>> /\ pqueue = FALSE
  /\ SegIdle
  /\ FitIdle
  /\ BkgIdle
  /\ MetaIdle
  /\ ShapeIdle

Exit(code, why) ==
  /\ dpc' = "exited" /\ exitcode' = code /\ cause' = why
  /\ UNCHANGED <<cores, doislandflux, measured, pqueue, nisl, odd, oddKind, bad, taken, isle_num,
                 island_group, queue, batches, arrived, drained, sources, written>>
  /\ UNCHANGED <<segvars, fitvars, bkgvars, metavars, shapevars>>

\* lines 1634-1637: --file_version: the versions are logged; sys.exit()
MainVersion ==
  /\ dpc = "main"
  /\ Exit(0, "version")
  /\ UNCHANGED fitted

\* lines 1639-1641: no file name on the command line: print_help(); sys.exit()
MainUsage ==
  /\ dpc = "main"
  /\ Exit(0, "usage")
  /\ UNCHANGED fitted

\* lines 1643-1645: the image file does not exist: sys.exit()
MainNoFile ==
  /\ dpc = "main"
  /\ Exit(0, "nofile")
  /\ UNCHANGED fitted

\* lines 1611 and 1624: parser.parse_args() rejects a command line whose
\* --beam has other than three numbers (type='float', nargs=3) or any other
\* malformed option: the parser's error ends the program with exit status 2
MainOptionError ==
  /\ dpc = "main"
  /\ Exit(2, "options")
  /\ UNCHANGED fitted

\* lines 1659-1661 with 1545-1581: --save_background: the background, rms
\* and curvature maps are written to their files; sys.exit().  The maps are
\* made by make_bkg_rms_image without a forced rms (line 1568): for a beam so
\* narrow that the mesh is 0 pixels wide line 800 raises ZeroDivisionError
\* before any file is written
MainSaveBackground ==
  /\ dpc = "main"
  /\ \E ok \in BOOLEAN : IF ok THEN Exit(0, "savebkg") ELSE Exit(1, "zeromesh")
  /\ UNCHANGED fitted

\* lines 1663-1665: the --catalog file does not exist: sys.exit()
MainNoCatfile ==
  /\ dpc = "main"
  /\ Exit(0, "nocat")
  /\ UNCHANGED fitted

\* lines 1671-1676: the --bkgin or --rmsin file does not exist: sys.exit()
MainNoAux ==
  /\ dpc = "main"
  /\ Exit(0, "noaux")
  /\ UNCHANGED fitted

\* lines 1682-1685: all files exist, find_sources_in_image is called
MainCall ==
  /\ dpc = "main"
  /\ dpc' = "find"
  /\ UNCHANGED <<exitcode, cause, cores, doislandflux, measured, pqueue, nisl, odd, oddKind, bad, taken,
                 isle_num, island_group, queue, batches, arrived, drained, sources,
                 written, fitted>>
  /\ UNCHANGED <<segvars, fitvars, bkgvars, metavars, shapevars>>

\* lines 1422-1476: force_measure_flux gives one SimpleSource per row of the
\* catalogue whose position is inside the image, in the order of the file;
\* a row is known by its number, which stands for its ra and dec
SimpleSources(rows, inside) ==
  LET InImage(r) == r.ra \in inside
  IN  SelectSeq([k \in 1 .. rows |-> [ra |-> k, dec |-> k]], InImage)

\* lines 1678-1680 with 1499-1543: --catalog: measure_catalog_fluxes() measures
\* at the positions of the file and prints one line per measurement, unsorted
MainCatalog ==
  /\ dpc = "main"
  /\ \E rows \in 0 .. MaxRows : \E inside \in SUBSET (1 .. rows) :
       measured' = SimpleSources(rows, inside)
  /\ written' = measured'
  /\ dpc' = "measured"
  /\ UNCHANGED <<exitcode, cause, cores, doislandflux, pqueue, nisl, odd, oddKind, bad, taken,
                 isle_num, island_group, queue, batches, arrived, drained, sources, fitted>>
  /\ UNCHANGED <<segvars, fitvars, bkgvars, metavars, shapevars>>

\* lines 1503-1505 with 642-654, and 1511-1519: measure_catalog_fluxes() with a
\* background image of another shape, or a catalogue that is neither .cat
\* nor .csv: sys.exit()
MainCatalogExit ==
  /\ dpc = "main"
  /\ \E why \in {"bkgshape", "format"} : Exit(0, why)
  /\ UNCHANGED fitted

\* lines 1322-1327 with 642-654: an auxiliary image of another shape: sys.exit()
FindShapeMismatch ==
  /\ dpc = "find"
  /\ Exit(0, "mismatch")
  /\ UNCHANGED fitted

\* lines 1317-1319 with 800: no --rmsin/--bkgin pair and no forced rms: the
\* maps are made from the image, and a mesh 0 pixels wide raises
\* ZeroDivisionError
FindZeroMesh ==
  /\ dpc = "find"
  /\ Exit(1, "zeromesh")
  /\ UNCHANGED fitted

\* lines 1346-1347: cores == 1, the queue is a plain list
FindStartSerial ==
  /\ dpc = "find"
  /\ cores = 1
  /\ dpc' = "loop"
  /\ queue' = <<>>
  /\ pqueue' = FALSE
  /\ UNCHANGED <<exitcode, cause, cores, doislandflux, measured, nisl, odd, oddKind, bad, taken,
                 isle_num, island_group, batches, arrived, drained, sources,
                 written, fitted>>
  /\ UNCHANGED <<segvars, fitvars, bkgvars, metavars, shapevars>>

\* lines 1348-1356: cores is not 1: None becomes multiprocessing.cpu_count(),
\* which may be 1, and the pprocess queue is created with that limit
FindStartParallel ==
  /\ dpc = "find"
  /\ cores # 1
  /\ dpc' = "loop"
  /\ IF cores = CoresNone THEN cores' \in 1 .. MaxCores ELSE cores' = cores
  /\ pqueue' = TRUE
  /\ UNCHANGED <<exitcode, cause, doislandflux, measured, nisl, odd, oddKind, bad, taken,
                 isle_num, island_group, queue, batches, arrived, drained, sources,
                 written, fitted>>
  /\ UNCHANGED <<segvars, fitvars, bkgvars, metavars, shapevars>>

\* lines 1348-1361: cores is not 1 and there is no select.poll(): revert to
\* cores = 1 with a plain list
FindPollFallback ==
  /\ dpc = "find"
  /\ cores # 1
  /\ dpc' = "loop"
  /\ cores' = 1
  /\ queue' = <<>>
  /\ pqueue' = FALSE
  /\ cause' = "nopoll"
  /\ UNCHANGED <<exitcode, doislandflux, measured, nisl, odd, oddKind, bad, taken,
                 isle_num, island_group, batches, arrived, drained, sources,
                 written, fitted>>
  /\ UNCHANGED <<segvars, fitvars, bkgvars, metavars, shapevars>>

\* lines 1372-1375: the next island has len(i) <= 1 and is passed over
LoopSkip ==
  /\ dpc = "loop"
  /\ Len(island_group) < group_size
  /\ taken < nisl
  /\ Rows(Kind(taken + 1)) <= 1
  /\ taken' = taken + 1
  /\ UNCHANGED <<dpc, exitcode, cause, cores, doislandflux, measured, pqueue, nisl, odd, oddKind, bad,
                 isle_num, island_group, queue, batches, arrived, drained, sources,
                 written, fitted>>
  /\ UNCHANGED <<segvars, fitvars, bkgvars, metavars, shapevars>>

\* lines 1376-1385, cores == 1: the island is fitted in the main process
\* and its result appended to the list
LoopFitSerial ==
  /\ dpc = "loop"
  /\ taken < nisl
  /\ Rows(Kind(taken + 1)) > 1
  /\ cores = 1
  /\ ~pqueue
  /\ LET island_data == IslandFittingData(isle_num + 1, taken + 1, doislandflux)
         res == fit_island_result(island_data)
     IN  /\ ~res.raised
         /\ queue' = Append(queue, res.sources)
  /\ fitted' = Append(fitted, isle_num + 1)
  /\ taken' = taken + 1
  /\ isle_num' = isle_num + 1
  /\ UNCHANGED <<dpc, exitcode, cause, cores, doislandflux, measured, pqueue, nisl, odd, oddKind, bad,
                 island_group, batches, arrived, drained, sources, written>>
  /\ UNCHANGED <<segvars, fitvars, bkgvars, metavars, shapevars>>

\* lines 1383-1384, cores == 1: fit_island raises; nothing catches the
\* exception, the interpreter prints the traceback and exits with status 1
LoopFitRaise ==
  /\ dpc = "loop"
  /\ taken < nisl
  /\ Rows(Kind(taken + 1)) > 1
  /\ cores = 1
  /\ fit_island_result(IslandFittingData(isle_num + 1, taken + 1, doislandflux)).raised
  /\ fitted' = Append(fitted, isle_num + 1)
  /\ taken' = taken + 1
  /\ isle_num' = isle_num + 1
  /\ dpc' = "exited" /\ exitcode' = 1 /\ cause' = "exception"
  /\ UNCHANGED <<cores, doislandflux, measured, pqueue, nisl, odd, oddKind, bad,
                 island_group, queue, batches, arrived, drained, sources, written>>
  /\ UNCHANGED <<segvars, fitvars, bkgvars, metavars, shapevars>>

\* lines 1376-1385, cores == 1 on a machine with one core, after cores=None:
\* the island is fitted in the main process, and queue.append(res) on the
\* pprocess queue, which has no append, raises AttributeError; nothing catches
\* it and the interpreter exits with status 1
LoopAppendFails ==
  /\ dpc = "loop"
  /\ taken < nisl
  /\ Rows(Kind(taken + 1)) > 1
  /\ cores = 1
  /\ pqueue
  /\ ~fit_island_result(IslandFittingData(isle_num + 1, taken + 1, doislandflux)).raised
  /\ fitted' = Append(fitted, isle_num + 1)
  /\ taken' = taken + 1
  /\ isle_num' = isle_num + 1
  /\ dpc' = "exited" /\ exitcode' = 1 /\ cause' = "append"
  /\ UNCHANGED <<cores, doislandflux, measured, pqueue, nisl, odd, oddKind, bad,
                 island_group, queue, batches, arrived, drained, sources, written>>
  /\ UNCHANGED <<segvars, fitvars, bkgvars, metavars, shapevars>>

\* lines 1376-1387, cores > 1: the island gets its id and joins the group
LoopGroup ==
  /\ dpc = "loop"
  /\ taken < nisl
  /\ Rows(Kind(taken + 1)) > 1
  /\ cores > 1
  /\ Len(island_group) < group_size
  /\ island_group' = Append(island_group, IslandFittingData(isle_num + 1, taken + 1, doislandflux))
  /\ taken' = taken + 1
  /\ isle_num' = isle_num + 1
  /\ UNCHANGED <<dpc, exitcode, cause, cores, doislandflux, measured, pqueue, nisl, odd, oddKind, bad,
                 queue, batches, arrived, drained, sources, written, fitted>>
  /\ UNCHANGED <<segvars, fitvars, bkgvars, metavars, shapevars>>

\* lines 1389-1391, cores > 1: the group is full; fit_parallel returns once
\* the queue has a free worker, and until then the driver waits with the
\* full group in hand
LoopSubmit ==
  /\ dpc = "loop"
  /\ cores > 1
  /\ Len(island_group) >= group_size
  /\ CanSubmit
  /\ batches' = Submitted(island_group)
  /\ island_group' = <<>>
  /\ UNCHANGED <<dpc, exitcode, cause, cores, doislandflux, measured, pqueue, nisl, odd, oddKind, bad,
                 taken, isle_num, queue, arrived, drained, sources, written, fitted>>
  /\ UNCHANGED <<segvars, fitvars, bkgvars, metavars, shapevars>>

\* lines 1393-1395: the generator is exhausted, a partial group is
\* submitted; island_group keeps its islands
LoopLastSubmit ==
  /\ dpc = "loop"
  /\ taken = nisl
  /\ cores > 1
  /\ Len(island_group) > 0
  /\ Len(island_group) < group_size
  /\ CanSubmit
  /\ batches' = Submitted(island_group)
  /\ dpc' = "drain"
  /\ UNCHANGED <<exitcode, cause, cores, doislandflux, measured, pqueue, nisl, odd, oddKind, bad, taken,
                 isle_num, island_group, queue, arrived, drained, sources, written, fitted>>
  /\ UNCHANGED <<segvars, fitvars, bkgvars, metavars, shapevars>>

\* lines 1393-1394: the generator is exhausted and no island is left over
LoopDone ==
  /\ dpc = "loop"
  /\ taken = nisl
  /\ cores > 1
  /\ Len(island_group) = 0
  /\ dpc' = "drain"
  /\ UNCHANGED <<exitcode, cause, cores, doislandflux, measured, pqueue, nisl, odd, oddKind, bad, taken,
                 isle_num, island_group, queue, batches, arrived, drained, sources,
                 written, fitted>>
  /\ UNCHANGED <<segvars, fitvars, bkgvars, metavars, shapevars>>

\* a worker runs fit_islands on its batch and ends; a batch whose fit_islands
\* raised delivers nothing (the dispatcher reports the crash and goes on)
WorkerFinish ==
  /\ dpc \in {"loop", "drain"}
  /\ \E b \in 1 .. Len(batches) :
       /\ batches[b].state = "running"
       /\ LET out == fit_islands(batches[b].islands, 1, <<>>, <<>>) IN
            /\ batches' = [batches EXCEPT ![b] = [islands |-> batches[b].islands,
                                                 state |-> "done",
                                                 res |-> IF out.raised THEN <<>> ELSE out.sources]]
            /\ fitted' = fitted \o out.called
       /\ arrived' = Append(arrived, b)
  /\ UNCHANGED <<dpc, exitcode, cause, cores, doislandflux, measured, pqueue, nisl, odd, oddKind, bad, taken,
                 isle_num, island_group, queue, drained, sources, written>>
  /\ UNCHANGED <<segvars, fitvars, bkgvars, metavars, shapevars>>

\* lines 1397-1399, cores > 1: `for src in queue` receives the next result;
\* the results are received in the order the batches were submitted
DrainOne ==
  /\ dpc = "drain"
  /\ drained < Len(batches)
  /\ batches[drained + 1].state = "done"
  /\ sources' = IF batches[drained + 1].res # <<>>
                THEN sources \o batches[drained + 1].res ELSE sources
  /\ drained' = drained + 1
  /\ UNCHANGED <<dpc, exitcode, cause, cores, doislandflux, measured, pqueue, nisl, odd, oddKind, bad, taken,
                 isle_num, island_group, queue, batches, arrived, written, fitted>>
  /\ UNCHANGED <<segvars, fitvars, bkgvars, metavars, shapevars>>

\* lines 1400-1405, cores > 1: all results are in; the sorted catalogue is written
DrainReturn ==
  /\ dpc = "drain"
  /\ drained = Len(batches)
  /\ written' = SortedCatalogue(sources)
  /\ dpc' = "returned"
  /\ UNCHANGED <<exitcode, cause, cores, doislandflux, measured, pqueue, nisl, odd, oddKind, bad, taken,
                 isle_num, island_group, queue, batches, arrived, drained, sources, fitted>>
  /\ UNCHANGED <<segvars, fitvars, bkgvars, metavars, shapevars>>

\* lines 1397-1405, cores == 1: the per-island results are joined, the sorted
\* catalogue is written and the list is returned; a pprocess queue that was
\* given no call (every island skipped) has no result to iterate over
SerialReturn ==
  /\ dpc = "loop"
  /\ taken = nisl
  /\ cores = 1
  /\ sources' = ExtendAll(queue, 1)
  /\ written' = SortedCatalogue(sources')
  /\ dpc' = "returned"
  /\ UNCHANGED <<exitcode, cause, cores, doislandflux, measured, pqueue, nisl, odd, oddKind, bad, taken,
                 isle_num, island_group, queue, batches, arrived, drained, fitted>>
  /\ UNCHANGED <<segvars, fitvars, bkgvars, metavars, shapevars>>

\* lines 1686-1689 without --table: the program runs off its end: exit status 0
MainEnd ==
  /\ dpc \in {"returned", "measured"}
  /\ Exit(0, "ok")
  /\ UNCHANGED fitted

\* lines 1686-1687 with 695-697 and 723-757: --table x.ann or x.reg: writeAnn()
\* reads catalog[0], an IndexError on an empty catalogue, and for records
\* without the attribute `a` (SimpleSource) reads the undefined name bmaj, a
\* NameError; nothing catches either and the interpreter exits with status 1
MainTableAnn ==
  /\ dpc \in {"returned", "measured"}
  /\ IF dpc = "measured" \/ sources = <<>> THEN Exit(1, "table") ELSE Exit(0, "ok")
  /\ UNCHANGED fitted

\* lines 1686-1687 with 698-721: --table with another extension: without atpy
\* "File not saved" is logged and the program ends; with atpy catalog[0] is an
\* IndexError on an empty catalogue and a.meta an AttributeError on any other
MainTableAtpy ==
  /\ dpc \in {"returned", "measured"}
  /\ \E atpy \in BOOLEAN : IF atpy THEN Exit(1, "table") ELSE Exit(0, "ok")
  /\ UNCHANGED fitted

DrvNext ==
  \/ MainOptionError \/ MainVersion \/ MainUsage \/ MainNoFile \/ MainSaveBackground
  \/ MainNoCatfile \/ MainNoAux \/ MainCatalog \/ MainCatalogExit \/ MainCall
  \/ FindZeroMesh \/ FindShapeMismatch \/ FindStartSerial \/ FindStartParallel \/ FindPollFallback
  \/ LoopSkip \/ LoopFitSerial \/ LoopFitRaise \/ LoopAppendFails \/ LoopGroup
  \/ LoopSubmit \/ LoopLastSubmit \/ LoopDone \/ WorkerFinish \/ DrainOne \/ DrainReturn
  \/ SerialReturn \/ MainEnd \/ MainTableAnn \/ MainTableAtpy

SpecDrv == DrvInit /\ [][DrvNext]_vars

\* ---------------------------------------------------- driver: properties
\* the island at position idx of the yield order is kept by the driver
Kept(idx) == Rows(Kind(idx)) > 1

\* the island id the driver gives to the kept island at position idx
IdOf(idx) == Cardinality({ k \in 1 .. idx : Kept(k) })

\* the components the fit of the island at position idx returns
ComponentsOf(idx) == fit_island_result(IslandFittingData(IdOf(idx), idx, doislandflux)).sources

\* the fit of some kept island raises
SomeFitRaises == bad # 0 /\ Kept(bad)

\* the list find_sources_in_image returns when every island is fitted in turn
\* in the main process (cores = 1), as long as no fit raises
RECURSIVE SerialList(_)
SerialList(idx) ==
  IF idx = 0 THEN <<>>
  ELSE IF Kept(idx) /\ idx # bad THEN SerialList(idx - 1) \o ComponentsOf(idx)
       ELSE SerialList(idx - 1)

\* the results of the submitted batches, joined in submission order
RECURSIVE BatchList(_)
BatchList(b) ==
  IF b = 0 THEN <<>> ELSE BatchList(b - 1) \o batches[b].res

InSources(x) == \E i \in 1 .. Len(sources) : sources[i] = x

\* C5: the catalogue sorted by (island, source) is the same with cores = 1
\* and with several workers, for every order in which the batches complete:
\* a multi-worker run writes the catalogue the single-worker run writes.
C5_Original ==
  (dpc = "returned" /\ cores > 1) =>
    /\ ~SomeFitRaises
    /\ written = SortedCatalogue(SerialList(nisl))

\* the same for the runs in which no fit raises
C5_NoRaise ==
  (dpc = "returned" /\ ~SomeFitRaises) => written = SortedCatalogue(SerialList(nisl))

\* C6: in parallel mode the returned list holds the batches' results in
\* submission order and island-id order within each batch, whatever order
\* the workers finish in, and equals the list returned with cores = 1.
C6_Original ==
  (dpc = "returned" /\ cores > 1) =>
    /\ sources = BatchList(Len(batches))
    /\ ~SomeFitRaises
    /\ sources = SerialList(nisl)

\* the same for the runs in which no fit raises
C6_NoRaise ==
  (dpc = "returned" /\ ~SomeFitRaises) => sources = SerialList(nisl)

\* C7: when the fit of one island raises, only that island is affected: it
\* contributes no components, the components of every other island are
\* emitted and the run does not abort, with one worker as with several.
C7_Original ==
  (dpc = "exited" /\ SomeFitRaises /\ cause \in {"ok", "exception"}) =>
    /\ exitcode = 0
    /\ cause = "ok"
    /\ \A i \in 1 .. Len(sources) : sources[i].island # IdOf(bad)
    /\ \A idx \in 1 .. nisl :
         (Kept(idx) /\ idx # bad) =>
           \A j \in 1 .. Len(ComponentsOf(idx)) : InSources(ComponentsOf(idx)[j])

\* C8: a missing image file or an auxiliary image of another shape ends the
\* program with exit status 1 before any island is fitted; a successful run
\* ends with exit status 0.
C8_Original ==
  dpc = "exited" =>
    /\ (cause \in {"nofile", "mismatch", "bkgshape"} => exitcode = 1 /\ fitted = <<>>)
    /\ (cause = "ok" => exitcode = 0)

\* what the code does instead: those input errors end the program before
\* any fit, with exit status 0
C8_ExitsZero ==
  dpc = "exited" =>
    /\ (cause \in {"version", "usage", "nofile", "savebkg", "nocat", "noaux",
                   "mismatch", "bkgshape", "format"} => exitcode = 0 /\ fitted = <<>>)
    /\ (cause = "ok" => exitcode = 0)
    /\ (cause \in {"exception", "table", "append"} => exitcode = 1)
    /\ (cause = "zeromesh" => exitcode = 1 /\ fitted = <<>>)
    /\ (cause = "options" => exitcode = 2 /\ fitted = <<>>)

\* ---------------------------------------------------------------------------
\* estimate_parinfo and fit_island on one island.  Fluxes are integers;
\* positions, sizes and their limits are in 1/1000 pixel, amplitudes and
\* their limits in 1/1000 flux unit.
\* ---------------------------------------------------------------------------

NoLimit == 0 - 1       \* max_summits is None

Max2(a, b) == IF a >= b THEN a ELSE b
Min2(a, b) == IF a <= b THEN a ELSE b

\* a | b on the flag bits
FlagOr(a, b) ==
  LET bit(k) == IF HasBit(a, k) \/ HasBit(b, k) THEN k ELSE 0
  IN  bit(FITERRSMALL) + bit(FITERR) + bit(FIXED2PSF) + bit(FIXEDCIRCULAR) + bit(NOTFIT)

\* fwhm2cc = 1/(2*sqrt(2*ln 2)) = 0.4247, applied to a size in 1/1000 pixel
Fwhm2cc(v) == (v * 4247) \div 10000

\* np.cos / np.sin of a position angle of 0 or 90 degrees, times 1000
Cos1000(pa) == IF pa = 0 THEN 1000 ELSE 0
Sin1000(pa) == IF pa = 0 THEN 0 ELSE 1000

\* len(data[np.where(data==data)].ravel())
NonNanPix(d) == Cardinality({ q \in DOMAIN d : ~IsNaN(d[q]) })

\* the classification with the upper limit of the FIXED2PSF class at 5
IsFlagUpTo5(n) ==
  IF 4 <= n /\ n <= 5 THEN FIXED2PSF
  ELSE IF n < 4 THEN FITERRSMALL
  ELSE 0

\* lines 456-464: the flag of the island from its count of finite pixels
IsFlag(n) ==
  IF 4 <= n /\ n <= 6 THEN FIXED2PSF
  ELSE IF n < 4 THEN FITERRSMALL
  ELSE 0

\* the summit mask without the test of the curvature
KappaSigmaNoCurve(d, r, curve, inner, cs) ==
  [q \in DOMAIN d |->
     IF ~IsNaN(d[q]) /\ ~IsNaN(r[q]) /\ d[q] - inner * r[q] > 0 THEN d[q] ELSE 0 - 1]

\* line 475: the fluxes of the pixels above the seed clip whose curvature is
\* below -csigma, and -1 elsewhere
KappaSigma(d, r, curve, inner, cs) ==
  [q \in DOMAIN d |->
     IF /\ ~IsNaN(curve[q]) /\ curve[q] < (0 - cs)
        /\ ~IsNaN(d[q]) /\ ~IsNaN(r[q]) /\ d[q] - inner * r[q] > 0
     THEN d[q] ELSE 0 - 1]

\* lines 403-413: the loop over the sorted seeds, from seed i on
RECURSIVE GenFloodLoop(_, _, _, _, _, _, _, _)
GenFloodLoop(d, r, st, bounds, pks, i, outer, acc) ==
  IF i > Len(pks) THEN acc
  ELSE LET res == flood(d, r, st, bounds, pks[i], outer)
       IN  GenFloodLoop(d, r, res.status, bounds, pks, i + 1, outer,
                        IF Len(res.blob) >= 1
                        THEN Append(acc, list2map(d, res.blob)) ELSE acc)

\* gen_flood_wrap() run to its end: the list of the islands it yields
gen_flood_wrap(d, r, inner, outer, shape) ==
  LET st0 == [q \in DOMAIN d |-> IF SeedTest(d, r, q, inner) THEN PEAKED ELSE 0]
      pks == MakePeaks(d, r, inner)
  IN  IF Len(pks) = 0 THEN <<>>
      ELSE GenFloodLoop(d, r, st0, <<shape[1] - 1, shape[2] - 1>>, pks, 1, outer, <<>>)

\* the first pixel, in row-major order, of a non-empty set of pixels
FirstRowMajor(S) ==
  CHOOSE q \in S : \A q2 \in S : q[1] < q2[1] \/ (q[1] = q2[1] /\ q[2] <= q2[2])

\* lines 481-565: the six parameter records of summit number i
SummitParinfo(s, i, is_flag, r, beam) ==
  LET finite == { q \in DOMAIN s.pixels : ~IsNaN(s.pixels[q]) }
      amp == SetMax({ s.pixels[q] : q \in finite })
      peak == FirstRowMajor({ q \in finite : s.pixels[q] = amp })
      xo == peak[1] + s.xmin
      yo == peak[2] + s.ymin
      rms_at == r[<<xo, yo>>]
      amp_min == 4000 * rms_at
      amp_max == 1050 * amp + 3000 * rms_at
      xo_lim == Max2((beam.a * Cos1000(beam.pa)) \div 1000, (beam.b * Sin1000(beam.pa)) \div 1000)
      yo_lim == Max2((beam.a * Sin1000(beam.pa)) \div 1000, (beam.b * Cos1000(beam.pa)) \div 1000)
      xo_min0 == Max2(1000 * s.xmin, 1000 * xo - xo_lim)
      xo_max0 == Min2(1000 * s.xmax, 1000 * xo + xo_lim)
      xo_min == IF xo_min0 = xo_max0 THEN xo_min0 - 500 ELSE xo_min0
      xo_max == IF xo_min0 = xo_max0 THEN xo_max0 + 500 ELSE xo_max0
      yo_min0 == Min2(1000 * s.ymin, 1000 * yo - yo_lim)
      yo_max0 == Max2(1000 * s.ymax, 1000 * yo + yo_lim)
      yo_min == IF yo_min0 = yo_max0 THEN yo_min0 - 500 ELSE yo_min0
      yo_max == IF yo_min0 = yo_max0 THEN yo_max0 + 500 ELSE yo_max0
      xsize == s.xmax - s.xmin + 1
      ysize == s.ymax - s.ymin + 1
      major == Fwhm2cc(beam.a)
      minor == Fwhm2cc(beam.b)
      size_max == Fwhm2cc((Max2(xsize, ysize) + 1) * 1414)
      major_min == (major * 8) \div 10
      major_max == Max2(size_max, (major * 11) \div 10)
      minor_min == (minor * 8) \div 10
      minor_max == Max2(size_max, (major * 11) \div 10)
      flag == IF minor_min = minor_max \/ major_min = major_max
              THEN FlagOr(is_flag, FIXED2PSF) ELSE is_flag
      fix == HasBit(flag, FIXED2PSF)
  IN  << [parname |-> "amp", comp |-> i, value |-> 1000 * amp, fixed |-> FALSE,
          limits |-> <<amp_min, amp_max>>, limited |-> TRUE, flags |-> 0],
         [parname |-> "xo", comp |-> i, value |-> 1000 * xo, fixed |-> FALSE,
          limits |-> <<xo_min, xo_max>>, limited |-> TRUE, flags |-> 0],
         [parname |-> "yo", comp |-> i, value |-> 1000 * yo, fixed |-> FALSE,
          limits |-> <<yo_min, yo_max>>, limited |-> TRUE, flags |-> 0],
         [parname |-> "major", comp |-> i, value |-> major, fixed |-> fix,
          limits |-> <<major_min, major_max>>, limited |-> TRUE, flags |-> flag],
         [parname |-> "minor", comp |-> i, value |-> minor, fixed |-> fix,
          limits |-> <<minor_min, minor_max>>, limited |-> TRUE, flags |-> flag],
         [parname |-> "pa", comp |-> i, value |-> beam.pa, fixed |-> fix,
          limits |-> <<0 - 180, 180>>, limited |-> FALSE, flags |-> flag] >>

\* the loop  `for summit,xmin,xmax,ymin,ymax in summits`
RECURSIVE SummitLoop(_, _, _, _, _, _)
SummitLoop(summits, i, is_flag, r, beam, acc) ==
  IF i > Len(summits) THEN acc
  ELSE SummitLoop(summits, i + 1, is_flag, r, beam,
                  acc \o SummitParinfo(summits[i], i - 1, is_flag, r, beam))

\* lines 466-476: the summits of an island, each with its box; a tiny island
\* is its own summit with the box 0 .. shape
SummitList(d, r, curve, shape, inner, cs, tiny) ==
  IF tiny
  THEN << [pixels |-> d, xmin |-> 0, xmax |-> shape[1],
           ymin |-> 0, ymax |-> shape[2], blob |-> <<>>] >>
  ELSE gen_flood_wrap(KappaSigma(d, r, curve, inner, cs), [q \in DOMAIN d |-> 1], 0, 0, shape)

\* estimate_parinfo(): the flat list of parameter records, six per summit
estimate_parinfo(d, r, curve, shape, beam, inner, cs) ==
  LET is_flag0 == IsFlag(NonNanPix(d))
      tiny == Min2(shape[1], shape[2]) <= 2 \/ HasBit(is_flag0, FITERRSMALL)
      is_flag == IF tiny THEN FlagOr(is_flag0, FIXED2PSF) ELSE is_flag0
      summits == SummitList(d, r, curve, shape, inner, cs, tiny)
  IN  SummitLoop(summits, 1, is_flag, r, beam, <<>>)

\* len(parinfo) / 6
NumSummits(pinfo) == Len(pinfo) \div 6

ShapeNames == {"major", "minor", "pa"}

\* lines 1054-1059: the flags of the first shape record that has FITERRSMALL
ExtractIsFlag(pinfo) ==
  LET hits == { k \in 1 .. Len(pinfo) :
                  pinfo[k].parname \in ShapeNames /\ HasBit(pinfo[k].flags, FITERRSMALL) }
  IN  IF hits = {} THEN 0 ELSE pinfo[SetMin(hits)].flags

\* the test of the fast paths with >= in the comparison with max_summits
UseDummyAtLimit(pinfo, ms) ==
  \/ (ms # NoLimit /\ NumSummits(pinfo) >= ms)
  \/ HasBit(ExtractIsFlag(pinfo), FITERRSMALL)

\* the test of the fast paths without the branch for small islands
TooManyOnly(pinfo, ms) == ms # NoLimit /\ NumSummits(pinfo) > ms

\* lines 1060 and 1068: the island is not handed to the fitter
UseDummyMP(pinfo, ms) ==
  \/ (ms # NoLimit /\ NumSummits(pinfo) > ms)
  \/ HasBit(ExtractIsFlag(pinfo), FITERRSMALL)

\* lines 1063-1065 and 1071-1073: NOTFIT on every shape record
SetNotFit(pinfo) ==
  [k \in 1 .. Len(pinfo) |->
     IF pinfo[k].parname \in ShapeNames
     THEN [pinfo[k] EXCEPT !.flags = FlagOr(@, NOTFIT)] ELSE pinfo[k]]

\* lines 1092-1103: a missing perror becomes zeros, and every zero becomes -1
FixPerror(perror, n) ==
  LET filled == IF perror = <<>> THEN [k \in 1 .. n |-> 0] ELSE perror
  IN  [k \in 1 .. n |-> IF filled[k] = 0 THEN 0 - 1 ELSE filled[k]]

\* cc2fwhm = 2*sqrt(2*ln 2) = 2.3548, applied to a size in 1/1000 pixel
Cc2fwhm(v) == (v * 23548) \div 10000

Abs(v) == IF v < 0 THEN 0 - v ELSE v

\* within(x, xm, xx): min(max(x, xm), xx)
within(x, xm, xx) == Min2(Max2(x, xm), xx)

RECURSIVE SqrtIter(_, _)
SqrtIter(n, k) ==
  LET k2 == (k + n \div k) \div 2
  IN  IF k2 >= k THEN k ELSE SqrtIter(n, k2)

\* the integer part of the square root
ISqrt(n) == IF n <= 0 THEN 0 ELSE SqrtIter(n, n)

\* The sky of the model is flat with north along the first pixel axis, east
\* against the second and 2 arcsec to the pixel: a length in 1/1000 pixel
\* becomes a length in 1/1000 arcsec, a pixel angle theta the bearing -theta.
SkyLen(r) == 2 * Abs(r)

\* a bearing, in degrees, in (-180, 180]
Bearing(t) == ((179 - t) % 360) - 179

\* pa_limit() with the two loops swapped
RECURSIVE PaLimitDownFirst(_)
PaLimitDownFirst(pa) ==
  IF pa >= 90 THEN PaLimitDownFirst(pa - 180)
  ELSE IF pa < 0 - 90 THEN PaLimitDownFirst(pa + 180)
  ELSE pa

\* pa_limit(pa): the loops `while pa<=-90: pa+=180`, `while pa>90: pa-=180`
RECURSIVE pa_limit(_)
pa_limit(pa) ==
  IF pa <= 0 - 90 THEN pa_limit(pa + 180)
  ELSE IF pa > 90 THEN pa_limit(pa - 180)
  ELSE pa

\* fix_shape() without the exchange of the two axes
FixShapeNoSwap(src) == src

\* fix_shape(source): a >= b, by exchange of the axes and of their errors
fix_shape(src) ==
  IF src.a < src.b
  THEN [src EXCEPT !.a = src.b, !.b = src.a,
                   !.err_a = src.err_b, !.err_b = src.err_a,
                   !.pa = src.pa + 90]
  ELSE src

\* the inflation of an error without the test that it is positive
InflateAlways(e, rt) == (e * rt) \div 1000

\* lines 1180-1193: an error that is positive is multiplied by rt_npix
Inflate(e, rt) == IF e > 0 THEN (e * rt) \div 1000 ELSE e

\* an error in 1/1000 pixel; the -1 that stands for a zero error is -1 pixel
ErrPix(e) == IF e = 0 - 1 THEN 0 - 1000 ELSE e

\* lines 1126-1147: one component, from its six parameters and their errors,
\* before fix_shape; the position errors are clamped to -1 pixel .. shape
RawComponent(num, j, flag, p, e, off, shape) ==
  LET x_pix == p[2] + 1000 * off[1] + 1000
      y_pix == p[3] + 1000 * off[2] + 1000
      a == SkyLen(Cc2fwhm(p[4]))
      b == SkyLen(Cc2fwhm(p[5]))
      pa == Bearing(p[6])
      x_err == within(ErrPix(e[2]), 0 - 1000, 1000 * shape[1])
      y_err == within(ErrPix(e[3]), 0 - 1000, 1000 * shape[2])
  IN  [island |-> num, source |-> j, flags |-> flag,
       peak_flux |-> p[1], err_peak_flux |-> e[1],
       x_pix |-> x_pix, y_pix |-> y_pix,
       major |-> p[4], minor |-> p[5], theta |-> p[6],
       a |-> a, b |-> b, pa |-> pa,
       err_ra |-> IF e[2] > 0 THEN SkyLen(y_err) ELSE 0 - 1,
       err_dec |-> IF e[3] > 0 THEN SkyLen(x_err) ELSE 0 - 1,
       err_a |-> IF e[4] > 0 THEN Abs(a - SkyLen(Cc2fwhm(p[4] + e[4]))) ELSE 0 - 1,
       err_b |-> IF e[5] > 0 THEN Abs(b - SkyLen(Cc2fwhm(p[5] + e[5]))) ELSE 0 - 1,
       err_pa |-> IF e[6] > 0 THEN Abs(pa - Bearing(p[6] + e[6])) ELSE 0 - 1,
       int_flux |-> 0, err_int_flux |-> 0]

\* lines 1148-1154: fix_shape, then pa_limit on pa and on a positive err_pa
ShapedComponent(src) ==
  LET f == fix_shape(src)
  IN  [f EXCEPT !.pa = pa_limit(f.pa),
                !.err_pa = IF f.err_pa > 0 THEN Abs(pa_limit(f.err_pa)) ELSE f.err_pa]

\* max(err, 0) / value, in 1/1000
RelErr(e, v) == (1000 * Max2(e, 0)) \div v

\* lines 1165-1193: the fluxes, and the errors multiplied by rt_npix
FluxedComponent(src, beam, npix, components) ==
  LET int_flux == (((src.peak_flux * Cc2fwhm(src.major)) \div beam.a)
                     * Cc2fwhm(src.minor)) \div beam.b
      sumsq == RelErr(src.err_peak_flux, src.peak_flux) * RelErr(src.err_peak_flux, src.peak_flux)
               + RelErr(src.err_a, src.a) * RelErr(src.err_a, src.a)
               + RelErr(src.err_b, src.b) * RelErr(src.err_b, src.b)
      err_int == (int_flux * ISqrt(sumsq)) \div 1000
      rt == ISqrt(1000000 * (npix \div components))
  IN  [src EXCEPT !.int_flux = int_flux,
                  !.err_int_flux = Inflate(err_int, rt),
                  !.err_ra = Inflate(src.err_ra, rt),
                  !.err_dec = Inflate(src.err_dec, rt),
                  !.err_peak_flux = Inflate(src.err_peak_flux, rt),
                  !.err_a = Inflate(src.err_a, rt),
                  !.err_b = Inflate(src.err_b, rt),
                  !.err_pa = Inflate(src.err_pa, rt)]

\* lines 1107-1195: the component records, one per six parameters
ComponentSources(num, info, params, perror, off, shape, beam, npix) ==
  LET err == perror = <<>>
      errs == FixPerror(perror, Len(params))
      components == Len(params) \div 6
  IN  [j \in 1 .. components |->
         LET k == (j - 1) * 6
             p == <<params[k + 1], params[k + 2], params[k + 3],
                    params[k + 4], params[k + 5], params[k + 6]>>
             e == <<errs[k + 1], errs[k + 2], errs[k + 3],
                    errs[k + 4], errs[k + 5], errs[k + 6]>>
             flag == FlagOr(IF err THEN FITERR ELSE 0, info[k + 6].flags)
         IN  FluxedComponent(ShapedComponent(RawComponent(num, j - 1, flag, p, e, off, shape)),
                             beam, npix, components)]

\* sum(sum(kappa_sigma))
RECURSIVE SumOver(_, _)
SumOver(f, S) ==
  IF S = {} THEN 0
  ELSE LET q == CHOOSE q \in S : TRUE IN f[q] + SumOver(f, S \ {q})

\* v / d rounded to the nearest integer, for v >= 0 and d > 0
DivRound(v, d) == (2 * v + d) \div (2 * d)

\* <<quotient, remainder>> of a * m by d for 0 <= a, 0 <= m and 0 < d, by
\* doubling over the bits of m, so that no step leaves the machine integer
RECURSIVE MulDivQR(_, _, _)
MulDivQR(a, m, d) ==
  IF m = 0 THEN <<0, 0>>
  ELSE LET h == MulDivQR(a, m \div 2, d)
           rest == 2 * h[2] + (m % 2) * a
       IN  <<2 * h[1] + rest \div d, rest % d>>
MulDivRound(qr, d) == qr[1] + (IF 2 * qr[2] >= d THEN 1 ELSE 0)
\* a * m / d rounded to the nearest integer; the three arguments are values
\* before the long multiplication starts
MulDiv(a, m, d) ==
  CHOOSE v \in { MulDivRound(MulDivQR(t[1], t[2], t[3]), t[3]) : t \in {<<a, m, d>>} } : TRUE

\* IEEE +inf, the quotient of a positive float by 0.0; above every finite flux
Inf == 2000000000

\* erf(sqrt(-ln x))**4 / (1 - x)**2 in 1/1000000 at x = 0, 1/120, ..., 1 (the
\* quotient is smooth and runs from 1 to 16/pi**2)
EtaKnots ==
  <<
     1000000, 1008878, 1016858, 1024427, 1031715, 1038786, 1045681, 1052429,
     1059049, 1065558, 1071967, 1078286, 1084525, 1090689, 1096784, 1102817,
     1108790, 1114709, 1120576, 1126394, 1132167, 1137897, 1143586, 1149237,
     1154850, 1160429, 1165974, 1171487, 1176969, 1182423, 1187848, 1193245,
     1198617, 1203964, 1209287, 1214587, 1219864, 1225119, 1230354, 1235568,
     1240762, 1245938, 1251095, 1256234, 1261356, 1266461, 1271550, 1276623,
     1281680, 1286722, 1291750, 1296763, 1301763, 1306749, 1311722, 1316682,
     1321629, 1326564, 1331488, 1336399, 1341300, 1346189, 1351067, 1355935,
     1360792, 1365639, 1370476, 1375304, 1380122, 1384930, 1389730, 1394520,
     1399302, 1404075, 1408840, 1413597, 1418345, 1423086, 1427818, 1432544,
     1437261, 1441972, 1446675, 1451371, 1456061, 1460743, 1465419, 1470088,
     1474751, 1479407, 1484058, 1488702, 1493340, 1497972, 1502599, 1507220,
     1511835, 1516445, 1521049, 1525648, 1530242, 1534830, 1539414, 1543992,
     1548566, 1553135, 1557699, 1562259, 1566814, 1571364, 1575910, 1580451,
     1584989, 1589522, 1594050, 1598575, 1603096, 1607612, 1612125, 1616634,
     1621139
  >>

\* the same at x = num/den, 0 <= x <= 1, between two knots by a straight line
EtaShape(num, den) ==
  LET steps == Len(EtaKnots) - 1
      k == (num * steps) \div den
      rest == (num * steps) % den
  IN  IF k >= steps THEN EtaKnots[steps + 1]
      ELSE EtaKnots[k + 1] + DivRound((EtaKnots[k + 2] - EtaKnots[k + 1]) * rest, den)

\* lines 1241-1242: eta**2, with eta = erf(sqrt(-ln(x)))**2, for
\* x = local_rms*outerclip/peak_flux = num/den with 0 <= x <= 1, as the
\* fraction <<n, d>>; it is 1 at x = 0 and 0 at x = 1
EtaSquared(num, den) == <<EtaShape(num, den) * (den - num) * (den - num), 1000000 * den * den>>

\* line 1234: beam_volume = 2*pi*a*b/cc2fwhm**2 = 1.133090*a*b, in 1/1000000
BeamVolume(beam) == MulDiv(beam.a * beam.b, 1133090, 1000000)

\* lines 1199-1247: the record of the island itself, with source = -1: the
\* peak of the pixels above the seed clip, its position in the image, and
\* their sum over the beam volume and eta**2.  The sum of nothing but zeros
\* and a peak over a NaN rms give NaN, as does x > 1 (the square root of a
\* negative number); x = 1 gives eta = 0 and the quotient +inf.
IslandSource(num, d, r, inner, outer, off, beam) ==
  LET kappa == [q \in DOMAIN d |->
                  IF ~IsNaN(d[q]) /\ ~IsNaN(r[q]) /\ d[q] - inner * r[q] > 0
                  THEN d[q] ELSE 0]
      total == SumOver(kappa, DOMAIN d)
      peak == SetMax({ kappa[q] : q \in DOMAIN d })
      pos == FirstRowMajor({ q \in DOMAIN d : kappa[q] = peak })
      local_rms == r[pos]
      x == local_rms * outer
      raw == MulDiv(1000000 * total, 1000000, BeamVolume(beam))
      eta2 == EtaSquared(x, peak)
  IN  [island |-> num, source |-> 0 - 1, flags |-> 0,
       peak_flux |-> 1000 * peak,
       err_peak_flux |-> 0 - 1,
       x_pix |-> 1000 * (pos[1] + off[1]), y_pix |-> 1000 * (pos[2] + off[2]),
       major |-> 0, minor |-> 0, theta |-> 0,
       a |-> 0, b |-> 0, pa |-> 0,
       err_ra |-> 0 - 1, err_dec |-> 0 - 1, err_a |-> 0 - 1, err_b |-> 0 - 1,
       err_pa |-> 0 - 1,
       int_flux |-> IF IsNaN(local_rms) \/ peak = 0 \/ x < 0 \/ x > peak THEN NaN
                    ELSE IF x = peak THEN Inf
                    ELSE MulDiv(raw, eta2[2] \div 1000, eta2[1]),
       err_int_flux |-> 0 - 1]

\* the fitter ends where the estimator started
MpInitial(pinfo) == [k \in 1 .. Len(pinfo) |-> pinfo[k].value]

\* the fitter ends on the limits: every free parameter of a component sits on
\* a limit (amp and minor on the upper, xo, yo and major on the lower) and a
\* free pa, which has no limit, is 135 degrees
MpAtLimits(pinfo) ==
  [k \in 1 .. Len(pinfo) |->
     IF pinfo[k].fixed THEN pinfo[k].value
     ELSE IF pinfo[k].parname \in {"amp", "minor"} THEN pinfo[k].limits[2]
     ELSE IF pinfo[k].parname = "pa" THEN 135
     ELSE pinfo[k].limits[1]]

\* mp.params: DummyMP holds the values of parinfo (lines 286-293); the
\* fitter returns a vector inside the limits with the fixed parameters unmoved
MpParams(pinfo, outcome) ==
  IF outcome = "limits" THEN MpAtLimits(pinfo) ELSE MpInitial(pinfo)

\* mp.perror of the fitter: a covariance gives a positive error on each free
\* parameter and zero on each fixed one; without one perror is None
MpPerror(pinfo, outcome) ==
  IF outcome = "nocov" THEN <<>>
  ELSE [k \in 1 .. Len(pinfo) |->
          IF pinfo[k].fixed THEN 0
          ELSE IF pinfo[k].parname = "pa" THEN 30
          ELSE IF pinfo[k].parname = "minor" THEN 200
          ELSE 100]

\* lines 1060-1077: the parameter records after the choice of the path
FitInfo(pinfo, ms) == IF UseDummyMP(pinfo, ms) THEN SetNotFit(pinfo) ELSE pinfo

\* lines 1084-1248: the list fit_island() returns
FitSources(num, d, r, info, params, perror, doflux, clips, off, shape, beam) ==
  LET comps == ComponentSources(num, info, params, perror, off, shape, beam, NonNanPix(d))
  IN  IF doflux
      THEN Append(comps, IslandSource(num, d, r, clips[1], clips[2], off, beam))
      ELSE comps

\* the shapes of the island sub-images
IslandShapes == { <<2, 1>>, <<3, 1>>, <<2, 2>>, <<2, 3>>, <<3, 2>>, <<3, 3>> }

\* <<flux, curvature>> of a pixel above the seed clip; the other pixels of
\* an island have flux 1 and curvature 0
HotVals == { <<3, 0>>, <<3, 0 - 1>>, <<4, 0 - 1>> }

\* the pixel beams: a, b in 1/1000 pixel, pa in degrees
PixBeams == { [a |-> 3000, b |-> 2000, pa |-> 0], [a |-> 2000, b |-> 2000, pa |-> 90] }

MaxSummitsVals == { NoLimit, 1 }

Corners(shape) ==
  { <<0, 0>>, <<0, shape[2] - 1>>, <<shape[1] - 1, 0>>, <<shape[1] - 1, shape[2] - 1>> }

\* list2map(): the bounding box of an island is tight
TightBox(S, shape) ==
  /\ \A x \in 0 .. shape[1] - 1 : \E q \in S : q[1] = x
  /\ \A y \in 0 .. shape[2] - 1 : \E q \in S : q[2] = y

\* an island as gen_flood_wrap yields it under clips <<2, 1>> and rms 1:
\* 4-connected, in a tight box, NaN outside, at least one seed; the box
\* has more than one row, or find_sources_in_image drops the island
Islands ==
  UNION { UNION { { [shape |-> shape, blank |-> blank, hot |-> hot] :
                      hot \in { H \in SUBSET (Pix(shape[1], shape[2]) \ blank) :
                                  Cardinality(H) >= 1 /\ Cardinality(H) <= MaxHot } } :
                  blank \in { B \in SUBSET Corners(shape) :
                                /\ TightBox(Pix(shape[1], shape[2]) \ B, shape)
                                /\ Connected4(Pix(shape[1], shape[2]) \ B) } } :
          shape \in IslandShapes }

FitInit ==
  /\ \E isl \in Islands :
       \E hv \in [isl.hot -> HotVals] :
          LET cells == Pix(isl.shape[1], isl.shape[2]) IN
          /\ isle = [q \in cells |->
                                    IF q \in isl.blank THEN NaN
                                    ELSE IF q \in isl.hot THEN hv[q][1] ELSE 1]
          /\ icurve = [q \in cells |-> IF q \in isl.hot THEN hv[q][2] ELSE 0]
          /\ irms = [q \in cells |-> 1]
          /\ ishape = isl.shape
  /\ pixbeam \in PixBeams
  /\ csigma = 0
  /\ iclip = <<2, 1>>
  /\ max_summits \in MaxSummitsVals
  /\ fitflux \in BOOLEAN
  /\ parinfo = <<>>
  /\ mpfit_calls = 0
  /\ mp_perror = <<>>
  /\ fit_sources = <<>>
  /\ fpc = "call"
  /\ SegIdle
  /\ DrvIdle
  /\ BkgIdle
  /\ MetaIdle
  /\ ShapeIdle

Estimated == estimate_parinfo(isle, irms, icurve, ishape, pixbeam, iclip[1], csigma)

\* island_data.offsets: (xmin, ymin) of the island the driver handed over,
\* the corner of the image for an island given on its own
FitOffsets ==
  IF taken >= 1 /\ taken <= Len(yielded)
  THEN <<yielded[taken].xmin, yielded[taken].ymin>> ELSE <<0, 0>>

\* lines 1084-1248 with the island id of island_data
FitReturn(calls, params, perror) ==
  /\ mpfit_calls' = calls
  /\ mp_perror' = FixPerror(perror, Len(parinfo'))
  /\ fit_sources' = FitSources(isle_num, isle, irms, parinfo', params, perror, fitflux, iclip,
                               FitOffsets, ishape, pixbeam)
  /\ fpc' = "done"
  /\ UNCHANGED <<isle, ishape, icurve, irms, pixbeam, csigma, iclip, max_summits, fitflux>>
  /\ UNCHANGED <<segvars, drvvars, bkgvars, metavars, shapevars>>

\* fit_island(), lines 1038-1051: the island has no summit
FitNoSummits ==
  /\ fpc = "call"
  /\ parinfo' = Estimated
  /\ NumSummits(parinfo') < 1
  /\ mpfit_calls' = 0
  /\ mp_perror' = <<>>
  /\ fit_sources' = <<>>
  /\ fpc' = "done"
  /\ UNCHANGED <<isle, ishape, icurve, irms, pixbeam, csigma, iclip, max_summits, fitflux>>
  /\ UNCHANGED <<segvars, drvvars, bkgvars, metavars, shapevars>>

\* fit_island(), lines 1038-1248 through a fast path: the fitter is not called
\* (NOTFIT changes neither of the two tests, which are made on the new list)
FitNotFit ==
  /\ fpc = "call"
  /\ parinfo' = FitInfo(Estimated, max_summits)
  /\ NumSummits(parinfo') >= 1
  /\ UseDummyMP(parinfo', max_summits)
  /\ FitReturn(0, MpParams(parinfo', "none"), <<>>)

\* fit_island(), lines 1038-1248 through multi_gauss
FitMpfit ==
  /\ fpc = "call"
  /\ parinfo' = FitInfo(Estimated, max_summits)
  /\ NumSummits(parinfo') >= 1
  /\ ~UseDummyMP(parinfo', max_summits)
  /\ \E outcome \in {"cov", "nocov", "limits"} :
       FitReturn(1, MpParams(parinfo', outcome), MpPerror(parinfo', outcome))

\* a fit that raises after subtracting its model from the island in place
FitMpfitRaisesInPlace ==
  /\ fpc = "call"
  /\ parinfo' = FitInfo(Estimated, max_summits)
  /\ NumSummits(parinfo') >= 1
  /\ ~UseDummyMP(parinfo', max_summits)
  /\ mpfit_calls' = 1
  /\ fpc' = "raised"
  /\ isle' = [q \in DOMAIN isle |-> 0]
  /\ UNCHANGED <<ishape, icurve, irms, pixbeam, csigma, iclip, max_summits, fitflux,
                 mp_perror, fit_sources>>
  /\ UNCHANGED <<segvars, drvvars, bkgvars, metavars, shapevars>>

\* fit_island() when multi_gauss raises: nothing is returned
FitMpfitRaises ==
  /\ fpc = "call"
  /\ parinfo' = FitInfo(Estimated, max_summits)
  /\ NumSummits(parinfo') >= 1
  /\ ~UseDummyMP(parinfo', max_summits)
  /\ mpfit_calls' = 1
  /\ fpc' = "raised"
  /\ UNCHANGED <<isle, ishape, icurve, irms, pixbeam, csigma, iclip, max_summits, fitflux,
                 mp_perror, fit_sources>>
  /\ UNCHANGED <<segvars, drvvars, bkgvars, metavars, shapevars>>

FitNext == FitNoSummits \/ FitNotFit \/ FitMpfit \/ FitMpfitRaises

SpecFit == FitInit /\ [][FitNext]_vars

\* ------------------------------------------- segmenter: the status array
QueuedSet(st) == { p \in DOMAIN st : HasBit(st[p], QUEUED) }
VisitedSet(st) == { p \in DOMAIN st : HasBit(st[p], VISITED) }

NoRepeat(sq) == \A i, j \in 1 .. Len(sq) : i # j => sq[i] # sq[j]

\* C22: over a whole run of gen_flood_wrap, whose floods share one status
\* array, every flood appends to its queue only pixels that were not QUEUED
\* before and each of them once; it visits exactly the pixels it queued, none
\* of which was VISITED before, so no pixel is in two blobs; and when a flood
\* ends the QUEUED pixels are the VISITED pixels.
C22_QueuedOnce ==
  [][ pk' = pk + 1 =>
        /\ NoRepeat(lastqueue')
        /\ SeqToSet(lastqueue') \cap QueuedSet(status) = {}
        /\ lastblob' = lastqueue'
        /\ SeqToSet(lastblob') \cap VisitedSet(status) = {}
        /\ QueuedSet(status') = QueuedSet(status) \cup SeqToSet(lastqueue')
        /\ QueuedSet(status') = VisitedSet(status')
        /\ Cardinality(VisitedSet(status')) <= Cardinality(DOMAIN data) ]_vars

\* the flood of the second seed has found it VISITED by the flood of the
\* first, which queued both, and has queued nothing
C22_Witness ==
  /\ pk = 2
  /\ lastqueue = <<>>
  /\ Len(yielded) = 1
  /\ Len(yielded[1].blob) = 2
  /\ SeqToSet(peaks) = SeqToSet(yielded[1].blob)

\* lines 317-337: the neighbours explore() looks at from a pixel, those whose
\* guard on x and y holds; each is read in status, data and rmsimg and may be
\* written in status
ExploreTargets(pixel, bounds) ==
  LET x == pixel[1]
      y == pixel[2]
  IN  (IF x > 0 THEN { <<x - 1, y>> } ELSE {})
        \cup (IF x < bounds[1] THEN { <<x + 1, y>> } ELSE {})
        \cup (IF y > 0 THEN { <<x, y - 1>> } ELSE {})
        \cup (IF y < bounds[2] THEN { <<x, y + 1>> } ELSE {})

InsideShape(q, shape) ==
  /\ 0 <= q[1] /\ q[1] <= shape[1] - 1
  /\ 0 <= q[2] /\ q[2] <= shape[2] - 1

\* C23: from every pixel of the image, border and corners included, the
\* pixels explore() reads and writes lie inside the image; every seed and
\* every pixel flood() visits lies inside it and has no negative coordinate,
\* so the exit of explore() on a negative coordinate is never taken; and a
\* flood queues nothing but its seed and pixels explore() looked at.
C23_InsideImage ==
  LET shape  == Shape(data)
      bounds == Bounds(data)
  IN  /\ \A p \in DOMAIN data : \A q \in ExploreTargets(p, bounds) : InsideShape(q, shape)
      /\ \A i \in 1 .. Len(peaks) : InsideShape(peaks[i], shape)
      /\ \A i \in 1 .. Len(lastblob) : InsideShape(lastblob[i], shape)
      /\ \A i \in 2 .. Len(lastqueue) :
           \E j \in 1 .. Len(lastblob) : lastqueue[i] \in ExploreTargets(lastblob[j], bounds)
      /\ DOMAIN status = DOMAIN data /\ DOMAIN rmsimg = DOMAIN data

\* a flood has grown an island into the far corner of the image
C23_Witness ==
  /\ pk >= 1
  /\ Len(lastblob) >= 2
  /\ Bounds(data) \in SeqToSet(lastblob)
  /\ \E i \in 1 .. Len(peaks) : peaks[i][1] = 0 \/ peaks[i][2] = 0

\* island k has the tight bounding box of its pixels as offsets, a sub-image
\* of the shape of that box holding the parent value at every island pixel,
\* and NaN everywhere else
TightSubImage(k) ==
  LET S == IslandSet(k)
      isl == yielded[k]
  IN  /\ isl.xmin \in { p[1] : p \in S } /\ \A p \in S : isl.xmin <= p[1]
      /\ isl.xmax \in { p[1] : p \in S } /\ \A p \in S : p[1] <= isl.xmax
      /\ isl.ymin \in { p[2] : p \in S } /\ \A p \in S : isl.ymin <= p[2]
      /\ isl.ymax \in { p[2] : p \in S } /\ \A p \in S : p[2] <= isl.ymax
      /\ DOMAIN isl.pixels = (0 .. isl.xmax - isl.xmin) \X (0 .. isl.ymax - isl.ymin)
      /\ \A p \in S : isl.pixels[<<p[1] - isl.xmin, p[2] - isl.ymin>>] = data[p]
      /\ \A q \in DOMAIN isl.pixels :
           <<q[1] + isl.xmin, q[2] + isl.ymin>> \notin S => IsNaN(isl.pixels[q])

\* C24: every yielded island has the tight bounding box of its pixel set as
\* offsets, a sub-image of shape (xmax-xmin+1, ymax-ymin+1) with
\* sub[x-xmin, y-ymin] = data[x, y] on the island and NaN elsewhere; and the
\* parent image is never changed.
C24_TightSubImage ==
  /\ [](\A k \in 1 .. Len(yielded) : TightSubImage(k))
  /\ [][data' = data]_vars

\* an island away from the origin that does not fill its box has been yielded
C24_Witness ==
  \E k \in 1 .. Len(yielded) :
    /\ yielded[k].xmin + yielded[k].ymin > 0
    /\ Cardinality(IslandSet(k)) = 3
    /\ \E q \in DOMAIN yielded[k].pixels : IsNaN(yielded[k].pixels[q])

\* the islands of the first b batches, in submission order
RECURSIVE BatchedIslands(_)
BatchedIslands(b) ==
  IF b = 0 THEN <<>> ELSE BatchedIslands(b - 1) \o batches[b].islands

\* the sequence holds the island ids 1 .. n in order, each once
IdsInOrder(sq, n) == Len(sq) = n /\ \A i \in 1 .. n : sq[i] = i

\* C25: with several workers every island the driver keeps is in exactly one
\* batch (or, during the loop, in the group being filled; after the loop
\* island_group is empty or still names the last partial batch, which is
\* submitted once), ids in order inside and across the
\* batches; a batch is submitted as soon as it holds group_size islands (with
\* a full group in hand the driver does nothing but submit it, as soon as a
\* worker is free), the last partial batch after the generator is exhausted,
\* never an empty one.
\* With one worker no batch is submitted and every kept island is fitted once.
C25_Batching ==
  /\ cores > 1 =>
       LET open == IF dpc = "loop" THEN island_group ELSE <<>>
           all == BatchedIslands(Len(batches)) \o open
       IN
       /\ IdsInOrder([i \in 1 .. Len(all) |-> all[i].isle_num], isle_num)
       /\ \A i \in 1 .. Len(all) : Kept(all[i].idx) /\ all[i].idx <= taken
       /\ \A i, j \in 1 .. Len(all) : i < j => all[i].idx < all[j].idx
       /\ \A b \in 1 .. Len(batches) :
            /\ Len(batches[b].islands) >= 1
            /\ Len(batches[b].islands) <= group_size
            /\ (b < Len(batches) \/ dpc = "loop") => Len(batches[b].islands) = group_size
       /\ Len(island_group) <= group_size
       /\ Len(island_group) = group_size =>
            /\ dpc = "loop"
            /\ ~ENABLED (LoopSkip \/ LoopGroup \/ LoopLastSubmit \/ LoopDone)
            /\ CanSubmit => ENABLED LoopSubmit
       /\ dpc \in {"drain", "returned", "exited"} =>
            \/ island_group = <<>>
            \/ /\ Len(batches) >= 1
               /\ island_group = batches[Len(batches)].islands
               /\ Len(island_group) < group_size
       /\ fitted = <<>> \/ \E b \in 1 .. Len(batches) : batches[b].state = "done"
  /\ cores = 1 =>
       /\ batches = <<>> /\ island_group = <<>>
       /\ IdsInOrder(fitted, isle_num)

\* a run with several workers has returned after a full batch and a partial
\* one, with an island passed over on the way
C25_Witness ==
  /\ dpc = "returned"
  /\ cores > 1
  /\ Len(batches) = 2
  /\ Len(batches[2].islands) < group_size
  /\ isle_num < nisl

\* the islands taken from the generator so far that satisfy a test
TakenWith(T(_)) == { k \in 1 .. taken : T(k) }

HasTwoPixels(k) == NPix(Kind(k)) >= 2

\* C17 as stated: the driver discards an island (no island id, never fitted)
\* if and only if it has at most one pixel; every island of two or more
\* pixels, whatever the orientation of its box, gets an island id and is
\* handed to fitting. The ids given so far count the islands of two or more
\* pixels taken so far.
C17_Original ==
  isle_num = Cardinality(TakenWith(HasTwoPixels))

\* what the driver does: the ids given so far count the islands taken so far
\* whose sub-image has more than one row, so a ridge of three pixels in one row
\* is passed over like a single pixel
C17_RowsTest ==
  /\ isle_num = Cardinality(TakenWith(Kept))
  /\ \A k \in 1 .. taken : Kind(k) = "rowridge" => HasTwoPixels(k) /\ ~Kept(k)

\* ------------------------------------------------ fit_island: the properties
IsleFinite == { q \in DOMAIN isle : ~IsNaN(isle[q]) }

IsleMax == SetMax({ isle[q] : q \in IsleFinite })

\* the components fit_island returned: the records with source >= 0
EmittedComponents == { i \in 1 .. Len(fit_sources) : fit_sources[i].source >= 0 }

\* the pixels above the seed clip whose curvature is below -csigma
SummitMask ==
  { q \in IsleFinite : isle[q] - iclip[1] * irms[q] > 0 /\ icurve[q] < (0 - csigma) }

\* the 4-connected pieces of the summit mask
SummitPieces == { Component(q, SummitMask) : q \in SummitMask }

\* the value a shape parameter has when it is frozen to the pixel beam
BeamValue(name) ==
  IF name = "major" THEN Fwhm2cc(pixbeam.a)
  ELSE IF name = "minor" THEN Fwhm2cc(pixbeam.b)
  ELSE pixbeam.pa

\* every shape record is flagged FIXED2PSF and fixed at the pixel beam
AllFixedToBeam ==
  \A k \in 1 .. Len(parinfo) :
    parinfo[k].parname \in ShapeNames =>
      /\ HasBit(parinfo[k].flags, FIXED2PSF)
      /\ parinfo[k].fixed
      /\ parinfo[k].value = BeamValue(parinfo[k].parname)

\* C9: an island of fewer than 4 finite pixels that reaches fit_island gets
\* exactly one candidate, centred on the island maximum and flagged
\* FITERRSMALL; the fitter is never called; the one component that is
\* emitted carries NOTFIT.
C9_SmallIsland ==
  (fpc # "call" /\ NonNanPix(isle) < 4) =>
    /\ fpc = "done"
    /\ mpfit_calls = 0
    /\ Len(parinfo) = 6
    /\ parinfo[1].value = 1000 * IsleMax
    /\ parinfo[2].value % 1000 = 0 /\ parinfo[3].value % 1000 = 0
    /\ <<parinfo[2].value \div 1000, parinfo[3].value \div 1000>> \in IsleFinite
    /\ isle[<<parinfo[2].value \div 1000, parinfo[3].value \div 1000>>] = IsleMax
    /\ \A k \in 4 .. 6 : HasBit(parinfo[k].flags, FITERRSMALL)
    /\ Cardinality(EmittedComponents) = 1
    /\ \A i \in EmittedComponents : HasBit(fit_sources[i].flags, NOTFIT)

\* C9 happens: a 3-pixel island in a 2x2 box, no limit on the summits, has
\* gone through fit_island and its component is returned
C9_Witness ==
  /\ fpc = "done"
  /\ NonNanPix(isle) = 3
  /\ ishape = <<2, 2>>
  /\ max_summits = NoLimit
  /\ EmittedComponents # {}

\* C10 as stated: an island of 4 to 6 finite pixels gets exactly one
\* candidate, flagged FIXED2PSF, with major, minor and pa fixed at the
\* pixel-beam values.
C10_Original ==
  (fpc # "call" /\ NonNanPix(isle) >= 4 /\ NonNanPix(isle) <= 6) =>
    /\ NumSummits(parinfo) = 1
    /\ AllFixedToBeam

\* C10 as the code has it: every candidate of an island of 4 to 6 finite
\* pixels is flagged FIXED2PSF with major, minor and pa fixed at the
\* pixel-beam values; there is exactly one candidate when the box of the
\* island is at most 2 pixels along an axis, and otherwise one candidate
\* per 4-connected piece of the summit mask, which may be none or several.
C10_FixedToBeam ==
  (fpc # "call" /\ NonNanPix(isle) >= 4 /\ NonNanPix(isle) <= 6) =>
    /\ Len(parinfo) = 6 * NumSummits(parinfo)
    /\ AllFixedToBeam
    /\ (Min2(ishape[1], ishape[2]) <= 2 => NumSummits(parinfo) = 1)
    /\ (Min2(ishape[1], ishape[2]) > 2 => NumSummits(parinfo) = Cardinality(SummitPieces))

\* C10 happens: an island of 4 to 6 finite pixels in a 3x3 box has been
\* estimated and has two candidates
C10_Witness ==
  /\ fpc = "done"
  /\ NonNanPix(isle) >= 4 /\ NonNanPix(isle) <= 6
  /\ ishape = <<3, 3>>
  /\ NumSummits(parinfo) = 2

\* the island has more summits than max_summits allows
TooManySummits == max_summits # NoLimit /\ NumSummits(parinfo) > max_summits

\* component i holds the values of the estimator for its summit
HasInitialValues(i) ==
  LET k == 6 * fit_sources[i].source IN
  /\ fit_sources[i].peak_flux = parinfo[k + 1].value
  /\ fit_sources[i].x_pix = parinfo[k + 2].value + 1000
  /\ fit_sources[i].y_pix = parinfo[k + 3].value + 1000
  /\ fit_sources[i].major = parinfo[k + 4].value
  /\ fit_sources[i].minor = parinfo[k + 5].value
  /\ fit_sources[i].theta = parinfo[k + 6].value

\* the errors of record i that come from one parameter error each
ParamErrorsUnknown(i) ==
  /\ fit_sources[i].err_ra = 0 - 1
  /\ fit_sources[i].err_dec = 0 - 1
  /\ fit_sources[i].err_peak_flux = 0 - 1
  /\ fit_sources[i].err_a = 0 - 1
  /\ fit_sources[i].err_b = 0 - 1
  /\ fit_sources[i].err_pa = 0 - 1

\* an island with exactly max_summits summits and at least 4 finite pixels
\* goes to the fitter
AtLimitIsFitted ==
  (fpc # "call" /\ max_summits # NoLimit /\ NumSummits(parinfo) = max_summits
     /\ NonNanPix(isle) >= 4) => mpfit_calls = 1

\* the fast path for too many summits, up to the error fields
TooManyNotFit ==
  /\ fpc = "done"
  /\ mpfit_calls = 0
  /\ Cardinality(EmittedComponents) = NumSummits(parinfo)
  /\ \A i \in EmittedComponents :
       HasInitialValues(i) /\ HasBit(fit_sources[i].flags, NOTFIT)

\* C11 as stated: with num_summits > max_summits the fitter is not called,
\* one component per summit is emitted with the values of the estimator and
\* NOTFIT, and all seven error fields are -1; an island with
\* num_summits = max_summits is fitted.
C11_Original ==
  /\ AtLimitIsFitted
  /\ (fpc # "call" /\ TooManySummits) =>
       /\ TooManyNotFit
       /\ \A i \in EmittedComponents :
            ParamErrorsUnknown(i) /\ fit_sources[i].err_int_flux = 0 - 1

\* C11 as the code has it: the same, except that err_int_flux is 0, not -1:
\* it is computed from max(err, 0) of the other errors and never set to -1.
C11_TooManySummits ==
  /\ AtLimitIsFitted
  /\ (fpc # "call" /\ TooManySummits) =>
       /\ TooManyNotFit
       /\ \A i \in EmittedComponents :
            ParamErrorsUnknown(i) /\ fit_sources[i].err_int_flux = 0

\* C11 happens: an island with two summits under max_summits = 1 has gone
\* through fit_island and both components are returned
C11_Witness ==
  /\ fpc = "done"
  /\ max_summits = 1
  /\ NumSummits(parinfo) = 2
  /\ Cardinality(EmittedComponents) = 2

\* the sky axes and the bearing of record i before fix_shape
RawA(i) == SkyLen(Cc2fwhm(fit_sources[i].major))
RawB(i) == SkyLen(Cc2fwhm(fit_sources[i].minor))
RawPa(i) == Bearing(fit_sources[i].theta)

\* the error of the sky axis that comes from pixel axis v with error e
RawAxisErr(v, e) ==
  IF e > 0 THEN Abs(SkyLen(Cc2fwhm(v)) - SkyLen(Cc2fwhm(v + e))) ELSE 0 - 1

\* rt_npix of the island, in 1/1000
RtNpix == ISqrt(1000000 * (NonNanPix(isle) \div Cardinality(EmittedComponents)))

\* C12: every record fit_island emits has a >= b >= 0 and -90 < pa <= 90;
\* a record whose axes came out with a < b has them, and their errors,
\* exchanged and 90 added to pa, and pa differs from the bearing it came from
\* by a multiple of 180.
C12_ShapeInvariant ==
  fpc = "done" =>
    /\ \A i \in 1 .. Len(fit_sources) :
         /\ fit_sources[i].a >= fit_sources[i].b
         /\ fit_sources[i].b >= 0
         /\ fit_sources[i].pa > 0 - 90
         /\ fit_sources[i].pa <= 90
    /\ \A i \in EmittedComponents :
         LET k == 6 * fit_sources[i].source
             fromMajor == Inflate(RawAxisErr(fit_sources[i].major, mp_perror[k + 4]), RtNpix)
             fromMinor == Inflate(RawAxisErr(fit_sources[i].minor, mp_perror[k + 5]), RtNpix)
         IN  IF RawA(i) < RawB(i)
             THEN /\ fit_sources[i].a = RawB(i) /\ fit_sources[i].b = RawA(i)
                  /\ fit_sources[i].err_a = fromMinor /\ fit_sources[i].err_b = fromMajor
                  /\ (fit_sources[i].pa - (RawPa(i) + 90)) % 180 = 0
             ELSE /\ fit_sources[i].a = RawA(i) /\ fit_sources[i].b = RawB(i)
                  /\ fit_sources[i].err_a = fromMajor /\ fit_sources[i].err_b = fromMinor
                  /\ (fit_sources[i].pa - RawPa(i)) % 180 = 0

\* C12 happens: a fitted component came out with its minor axis the longer
\* one, with different errors on the two axes, and a bearing outside (-90, 90]
C12_Witness ==
  /\ fpc = "done"
  /\ \E i \in EmittedComponents :
       /\ RawA(i) < RawB(i)
       /\ fit_sources[i].err_a # fit_sources[i].err_b
       /\ RawPa(i) + 90 <= 0 - 90 \/ RawPa(i) + 90 > 90 \/ RawPa(i) <= 0 - 90

\* the seven error fields of a record
ErrorFields(src) ==
  { src.err_ra, src.err_dec, src.err_peak_flux, src.err_int_flux,
    src.err_a, src.err_b, src.err_pa }

\* C13: every error field of every emitted record is -1 or at least 0; no
\* parameter error is left at exactly 0 (it becomes -1); a parameter error
\* that is not positive gives an output error of -1; an error of -1 is still
\* -1 after the multiplication by rt_npix.
C13_ErrorFields ==
  fpc = "done" =>
    /\ \A i \in 1 .. Len(fit_sources) :
         \A e \in ErrorFields(fit_sources[i]) : e = 0 - 1 \/ e >= 0
    /\ \A k \in 1 .. Len(mp_perror) : mp_perror[k] # 0
    /\ \A i \in EmittedComponents :
         LET k == 6 * fit_sources[i].source
             swapped == RawA(i) < RawB(i)
         IN  /\ mp_perror[k + 1] <= 0 => fit_sources[i].err_peak_flux = 0 - 1
             /\ mp_perror[k + 2] <= 0 => fit_sources[i].err_ra = 0 - 1
             /\ mp_perror[k + 3] <= 0 => fit_sources[i].err_dec = 0 - 1
             /\ mp_perror[k + 4] <= 0 =>
                  (IF swapped THEN fit_sources[i].err_b ELSE fit_sources[i].err_a) = 0 - 1
             /\ mp_perror[k + 5] <= 0 =>
                  (IF swapped THEN fit_sources[i].err_a ELSE fit_sources[i].err_b) = 0 - 1
             /\ mp_perror[k + 6] <= 0 => fit_sources[i].err_pa = 0 - 1

\* C13 happens: the fitter gave a covariance for an island with more pixels
\* than components whose shape is fixed: the errors of the shape are -1, the
\* error of the peak flux is positive and has been multiplied by rt_npix > 1
C13_Witness ==
  /\ fpc = "done"
  /\ mpfit_calls = 1
  /\ RtNpix > 1000
  /\ \E i \in EmittedComponents :
       /\ fit_sources[i].err_a = 0 - 1
       /\ fit_sources[i].err_pa = 0 - 1
       /\ fit_sources[i].err_peak_flux > 100

\* the pixels of the island that pass the seed threshold
IsleSeeds == { q \in IsleFinite : RatioGT(isle[q], irms[q], iclip[1]) }

\* the island takes the branch of one candidate: lines 467-473
TinyIsland == Min2(ishape[1], ishape[2]) <= 2 \/ NonNanPix(isle) < 4

\* C16 as stated: for every island that is fitted, the number of seed pixels
\* inside the island is at most the number of components emitted for it.
C16_Original ==
  fpc = "done" => Cardinality(IsleSeeds) <= Cardinality(EmittedComponents)

\* C16 amended: the inequality runs the other way. A fitted island emits one
\* component when it takes the branch of tiny islands, and otherwise one per
\* 4-connected piece of the seed pixels of negative curvature; each piece
\* holds a seed, so the components are at most as many as the seed pixels,
\* and fewer when seeds touch or have no negative curvature.
C16_ComponentsPerSummit ==
  fpc = "done" =>
    /\ Cardinality(EmittedComponents) <= Cardinality(IsleSeeds)
    /\ (TinyIsland => Cardinality(EmittedComponents) = 1)
    /\ (~TinyIsland => Cardinality(EmittedComponents) = Cardinality(SummitPieces))
    /\ \A P \in SummitPieces : P \cap IsleSeeds # {}

\* a fitted island of a 3x3 box with more seed pixels than components
C16_Witness ==
  /\ fpc = "done"
  /\ mpfit_calls = 1
  /\ ~TinyIsland
  /\ Cardinality(EmittedComponents) >= 1
  /\ Cardinality(IsleSeeds) > Cardinality(EmittedComponents)

\* the fitter was run and came back without a covariance: every parameter
\* error is the -1 that stands for none
NoCovariance == mpfit_calls = 1 /\ \A k \in 1 .. Len(mp_perror) : mp_perror[k] = 0 - 1

\* C20 as stated: FITERR is set on a component if and only if the fitter was
\* run on its island and returned no covariance; it is then set on every
\* component of the island and all their parameter errors are -1; components
\* of islands whose fit was skipped carry NOTFIT and do not gain FITERR.
C20_Original ==
  fpc = "done" =>
    \A i \in EmittedComponents :
      /\ HasBit(fit_sources[i].flags, FITERR) <=> NoCovariance
      /\ (HasBit(fit_sources[i].flags, FITERR) => ParamErrorsUnknown(i))
      /\ (mpfit_calls = 0 =>
            HasBit(fit_sources[i].flags, NOTFIT) /\ ~HasBit(fit_sources[i].flags, FITERR))

\* what fit_island does: FITERR goes with the absence of parameter errors,
\* whether the fitter returned none or was never run; it is then on every
\* component of the island, whose parameter errors are all -1; a component of
\* a skipped island carries NOTFIT and FITERR together
C20_FitErrWithoutErrors ==
  fpc = "done" =>
    \A i \in EmittedComponents :
      /\ HasBit(fit_sources[i].flags, FITERR) <=> (NoCovariance \/ mpfit_calls = 0)
      /\ (HasBit(fit_sources[i].flags, FITERR) => ParamErrorsUnknown(i))
      /\ (mpfit_calls = 0 =>
            HasBit(fit_sources[i].flags, NOTFIT) /\ HasBit(fit_sources[i].flags, FITERR))
      /\ (mpfit_calls = 1 => ~HasBit(fit_sources[i].flags, NOTFIT))

\* the island-integrated records fit_island returned: the records with source -1
IslandRecords == { i \in 1 .. Len(fit_sources) : fit_sources[i].source = 0 - 1 }

\* C21 as stated: with the island-flux flag set every island handed to
\* fit_island yields exactly one record with source = -1 and flags = 0 in
\* addition to its components; without the flag no record has source = -1.
C21_Original ==
  fpc = "done" =>
    /\ (fitflux => /\ Cardinality(IslandRecords) = 1
                   /\ \A i \in IslandRecords : fit_sources[i].flags = 0)
    /\ (~fitflux => IslandRecords = {})

\* what fit_island does: an island without summits returns the empty list
\* before the island record is made, flag or no flag; an island with summits
\* returns its components followed, with the flag, by one record with
\* source = -1 and flags = 0, and without the flag by nothing more
C21_OnlyWithSummits ==
  fpc = "done" =>
    /\ (NumSummits(parinfo) < 1 => fit_sources = <<>>)
    /\ ((fitflux /\ NumSummits(parinfo) >= 1) =>
          /\ IslandRecords = {Len(fit_sources)}
          /\ fit_sources[Len(fit_sources)].flags = 0
          /\ Cardinality(EmittedComponents) = NumSummits(parinfo))
    /\ (~fitflux => IslandRecords = {})

\* ------------------------------------------ background and rms: the functions
MaxOdd == 2

\* pixels.sort() on the values of the cells
RECURSIVE SortedFrom(_, _)
SortedFrom(d, cells) ==
  IF cells = {} THEN <<>>
  ELSE LET m == CHOOSE c \in cells : \A e \in cells : d[c] <= d[e]
       IN  <<d[m]>> \o SortedFrom(d, cells \ {m})

\* a tile that keeps its estimate only from five pixels on
TooFewAtFour(size) == size <= 4

\* line 847: len(pixels) < 4
TooFew(size) == size < 4

\* line 853: iqr = p75 - p25
Iqr(p25, p75) == p75 - p25

\* line 854: iqr / 1.34896
IqrToRms(iqr) == (iqr * 100000) \div 134896

\* estimate_background(data[cells]): the python indices are zero-based
estimate_background(d, cells) ==
  LET pixels == SortedFrom(d, { c \in cells : ~IsNaN(d[c]) })
      size   == Len(pixels)
  IN  IF TooFew(size) THEN [bkg |-> NaN, rms |-> NaN]
      ELSE LET p25 == pixels[size \div 4 + 1]
               p50 == pixels[size \div 2 + 1]
               p75 == pixels[(size \div 4) * 3 + 1]
           IN  [bkg |-> p50, rms |-> IqrToRms(Iqr(p25, p75))]

\* range(a, b, step) with step > 0
RangeSeq(a, b, step) ==
  [i \in 1 .. (IF b > a THEN (b - a + step - 1) \div step ELSE 0) |-> a + (i - 1) * step]

Zip(a, b) == [i \in 1 .. Min2(Len(a), Len(b)) |-> <<a[i], b[i]>>]

\* lines 780-828 along one axis: the <<min, max>> pairs of the boxes
MeshEdges(img, width) ==
  LET cen   == img \div 2
      start == (cen - width \div 2) % width
      end   == img - ((img - start) % width)
      mins  == <<0>> \o RangeSeq(start, end, width) \o <<end>>
      maxs  == <<start>> \o RangeSeq(start + width, end + 1, width) \o <<img>>
  IN  IF width >= img THEN << <<0, img>> >> ELSE Zip(mins, maxs)

\* the cells of data[ymin:ymax, xmin:xmax]
TileCells(d, xe, ye) ==
  { q \in DOMAIN d : ye[1] <= q[1] /\ q[1] < ye[2] /\ xe[1] <= q[2] /\ q[2] < xe[2] }

\* make_bkg_rms_image(): a cell keeps what the last box holding it assigned,
\* and the zero it started with when no box holds it
make_bkg_rms_image(d, width, forced) ==
  IF forced # 0
  THEN [bkgimg |-> [q \in DOMAIN d |-> 0], rmsimg |-> [q \in DOMAIN d |-> forced]]
  ELSE LET img_y == Shape(d)[1]
           img_x == Shape(d)[2]
           xs    == MeshEdges(img_x, width[1])
           ys    == MeshEdges(img_y, width[2])
           est   == [i \in DOMAIN xs, j \in DOMAIN ys |->
                       estimate_background(d, TileCells(d, xs[i], ys[j]))]
           at(q) == LET xi == { i \in DOMAIN xs : xs[i][1] <= q[2] /\ q[2] < xs[i][2] }
                        yi == { j \in DOMAIN ys : ys[j][1] <= q[1] /\ q[1] < ys[j][2] }
                    IN  IF xi = {} \/ yi = {} THEN [bkg |-> 0, rms |-> 0]
                        ELSE est[SetMax(xi), SetMax(yi)]
       IN  [bkgimg |-> [q \in DOMAIN d |-> at(q).bkg],
            rmsimg |-> [q \in DOMAIN d |-> at(q).rms]]

\* ------------------------------------------- background and rms: the machine
\* data.shape: three rows of four pixels
BkgShape == <<3, 4>>

\* an odd pixel on a flat image: blank, below or above the rest
OddVals == { NaN, 0 - 2000, 3000 }

\* <<width_x, width_y>>: int() of mesh_size times the beam extent, which is 0
\* for a beam narrower than a twentieth of a pixel
MeshWidths == { <<4, 3>>, <<2, 3>>, <<4, 2>>, <<2, 2>>, <<0, 3>> }

\* <<forced_rms, mesh>>: with an rms given the mesh is not looked at; the
\* option takes any float, so a negative one too
BkgOptions == { <<0, w>> : w \in MeshWidths } \cup { <<1000, <<4, 3>>>>, <<0 - 500, <<4, 3>>>> }

BkgImages ==
  UNION { { [q \in Pix(BkgShape[1], BkgShape[2]) |-> IF q \in L THEN f[q] ELSE 0] :
              f \in [L -> OddVals] } :
          L \in { K \in SUBSET Pix(BkgShape[1], BkgShape[2]) : Cardinality(K) <= MaxOdd } }

BkgInit ==
  /\ data \in BkgImages
  /\ \E o \in BkgOptions : forced_rms = o[1] /\ mesh = o[2]
  /\ bkgimg = <<>>
  /\ rmsimg = <<>>
  /\ innerclip = 1
  /\ outerclip = 1
  /\ status = [q \in Pix(BkgShape[1], BkgShape[2]) |-> 0]
  /\ peaks = <<>>
  /\ pk = 0
  /\ lastqueue = <<>>
  /\ lastblob = <<>>
  /\ yielded = <<>>
  /\ spc = "bkg"
  /\ DrvIdle
  /\ FitIdle
  /\ MetaIdle
  /\ ShapeIdle

\* lines 1317-1319 with no rms or background image given: both are made, and
\* the segmenter starts from them
BkgMake ==
  /\ spc = "bkg"
  /\ (forced_rms # 0 \/ (mesh[1] >= 1 /\ mesh[2] >= 1))
  /\ LET made == make_bkg_rms_image(data, mesh, forced_rms)
     IN  /\ bkgimg' = made.bkgimg
         /\ rmsimg' = made.rmsimg
  /\ spc' = "start"
  /\ UNCHANGED <<data, innerclip, outerclip, status, peaks, pk, lastqueue, lastblob,
                 yielded, mesh, forced_rms>>
  /\ UNCHANGED <<drvvars, fitvars, metavars, shapevars>>

\* lines 800-801 with a mesh width of 0: the modulo raises ZeroDivisionError,
\* which nothing catches
BkgZeroWidth ==
  /\ spc = "bkg"
  /\ forced_rms = 0
  /\ (mesh[1] = 0 \/ mesh[2] = 0)
  /\ spc' = "crashed"
  /\ UNCHANGED <<data, rmsimg, innerclip, outerclip, status, peaks, pk, lastqueue, lastblob,
                 yielded, bkgvars, metavars>>
  /\ UNCHANGED <<drvvars, fitvars, shapevars>>

BkgNext == BkgMake \/ BkgZeroWidth \/ SegStart \/ SegSkipPeak \/ SegYield \/ SegFinish

SpecBkg == BkgInit /\ [][BkgNext]_vars

\* ------------------------------------------ background and rms: properties
NanRms == { q \in DOMAIN rmsimg : IsNaN(rmsimg[q]) }

\* no pixel of NaN rms is a seed, is queued by the flood or lies in an island
NanRmsExcluded ==
  \A q \in NanRms :
    /\ q \notin SeqToSet(peaks)
    /\ ~HasBit(status[q], PEAKED)
    /\ ~HasBit(status[q], QUEUED)
    /\ \A i \in 1 .. Len(yielded) : q \notin IslandSet(i)

\* C14 as stated: a pixel whose rms is NaN is never a seed and never flooded
\* into an island, so no yielded island contains it; and every rms value that
\* make_bkg_rms_image produces is NaN or >= 0.
C14_Original ==
  spc # "bkg" =>
    /\ NanRmsExcluded
    /\ \A q \in DOMAIN rmsimg \ NanRms : rmsimg[q] >= 0

\* what the code keeps: the NaN part always, the sign only for an estimated
\* rms; a forced rms is handed on as it is
C14_EstimatedRms ==
  spc # "bkg" =>
    /\ NanRmsExcluded
    /\ (forced_rms = 0 => \A q \in DOMAIN rmsimg \ NanRms : rmsimg[q] >= 0)
    /\ (forced_rms # 0 => \A q \in DOMAIN rmsimg : rmsimg[q] = forced_rms)

\* a finished run with an island, and beside it a bright pixel of NaN rms
C14_Witness ==
  /\ spc = "done"
  /\ forced_rms = 0
  /\ \E i \in 1 .. Len(yielded) :
       \E q \in NanRms : data[q] > 0 /\ Neigh4(q) \cap IslandSet(i) # {}

\* the background and the rms have been estimated from the image
BkgEstimated == spc \notin {"bkg", "crashed"} /\ forced_rms = 0

\* the boxes of the mesh that hold a pixel
BkgTiles ==
  { TileCells(data, xe, ye) :
      xe \in SeqToSet(MeshEdges(Shape(data)[2], mesh[1])),
      ye \in SeqToSet(MeshEdges(Shape(data)[1], mesh[2])) } \ { {} }

FiniteIn(T) == { q \in T : ~IsNaN(data[q]) }

\* the value at zero-based index k of the sorted finite pixels of a box
OrderStat(T, k) ==
  CHOOSE v \in { data[q] : q \in FiniteIn(T) } :
    /\ Cardinality({ q \in FiniteIn(T) : data[q] < v }) <= k
    /\ k < Cardinality({ q \in FiniteIn(T) : data[q] <= v })

\* the estimate of a box is NaN, NaN exactly below four finite pixels, and is
\* otherwise the median and the scaled interquartile range, indices inside
TileEstimate(T, q) ==
  LET n == Cardinality(FiniteIn(T))
  IN  /\ (n < 4 <=> IsNaN(rmsimg[q]))
      /\ (n < 4 <=> IsNaN(bkgimg[q]))
      /\ n >= 4 =>
           /\ 3 * (n \div 4) < n
           /\ bkgimg[q] = OrderStat(T, n \div 2)
           /\ rmsimg[q] = IqrToRms(OrderStat(T, 3 * (n \div 4)) - OrderStat(T, n \div 4))

\* C15 as stated: the rms estimate_background gives a tile is strictly positive
\* whenever the tile has at least 4 finite pixels, NaN (with the background)
\* exactly when it has fewer; background = sorted[n/2], rms =
\* (sorted[3*(n/4)] - sorted[n/4])/1.34896, both indices inside the array.
C15_Original ==
  BkgEstimated =>
    \A T \in BkgTiles : \A q \in T :
      /\ TileEstimate(T, q)
      /\ (Cardinality(FiniteIn(T)) >= 4 => rmsimg[q] > 0)

\* C15 amended: with at least 4 finite pixels the rms is >= 0, and it is 0
\* exactly when sorted[3*(n/4)] = sorted[n/4] (a flat tile, for one); NaN
\* (with the background) exactly below 4 finite pixels; background and rms are
\* the stated order statistics, indices inside the array.
C15_NonNegativeRms ==
  BkgEstimated =>
    \A T \in BkgTiles : \A q \in T :
      /\ TileEstimate(T, q)
      /\ (Cardinality(FiniteIn(T)) >= 4 =>
            LET n == Cardinality(FiniteIn(T))
            IN  /\ rmsimg[q] >= 0
                /\ (rmsimg[q] = 0 <=> OrderStat(T, 3 * (n \div 4)) = OrderStat(T, n \div 4)))

\* a mesh with a flat box of rms 0, and a box of four pixels left with fewer
\* than four finite ones
C15_Witness ==
  /\ BkgEstimated
  /\ \E T \in BkgTiles : Cardinality(FiniteIn(T)) >= 4 /\ \A q \in T : rmsimg[q] = 0
  /\ \E T \in BkgTiles : /\ Cardinality(T) >= 4
                         /\ Cardinality(FiniteIn(T)) < 4
                         /\ \A q \in T : IsNaN(rmsimg[q]) /\ IsNaN(bkgimg[q])

\* ------------------------------------- one ridge through the whole pipeline
RidgeLen == 11

\* scipy.ndimage.convolve, mode 'reflect': index -1 reads 0 and index n reads n-1
Reflect(i, n) == IF i < 0 THEN 0 ELSE IF i >= n THEN n - 1 ELSE i

\* curvature(data): the convolution with [[1,1,1],[1,-8,1],[1,1,1]]
curvature(d) ==
  LET n1 == Shape(d)[1]
      n2 == Shape(d)[2]
      around(q) == SumOver([o \in (0 .. 2) \X (0 .. 2) |->
                              d[<<Reflect(q[1] + o[1] - 1, n1), Reflect(q[2] + o[2] - 1, n2)>>]],
                           (0 .. 2) \X (0 .. 2))
  IN  [q \in DOMAIN d |-> around(q) - 9 * d[q]]

\* img[xmin:xmax+1, ymin:ymax+1]
SubImage(img, isl) ==
  [q \in (0 .. isl.xmax - isl.xmin) \X (0 .. isl.ymax - isl.ymin) |->
     img[<<q[1] + isl.xmin, q[2] + isl.ymin>>]]

\* a ridge of len pixels from the corner (0, 0), along the second axis of an
\* image of 2 x RidgeLen or along the first axis of one of RidgeLen x 2; its
\* pixels are at 3 rms, the one at position top at 4 rms, all others at 0
RidgeImage(along, len, top) ==
  LET shape == IF along = 2 THEN <<2, RidgeLen>> ELSE <<RidgeLen, 2>>
      on(q) == q[3 - along] = 0 /\ q[along] < len
  IN  [q \in Pix(shape[1], shape[2]) |->
         IF on(q) THEN (IF q[along] = top THEN 4 ELSE 3) ELSE 0]

RidgeImages ==
  { RidgeImage(c[1], c[2], c[3]) :
      c \in { t \in {1, 2} \X (1 .. RidgeLen) \X (0 .. RidgeLen - 1) : t[3] < t[2] } }

RidgeInit ==
  /\ data \in RidgeImages
  /\ rmsimg = [q \in DOMAIN data |-> 1]
  /\ innerclip = 2 /\ outerclip = 1
  /\ status = [q \in DOMAIN data |-> 0]
  /\ peaks = <<>> /\ pk = 0 /\ lastqueue = <<>> /\ lastblob = <<>> /\ yielded = <<>>
  /\ spc = "start"
  /\ dpc = "loop" /\ exitcode = Running /\ cause = "" /\ cores = 1
  /\ doislandflux = FALSE /\ nisl = 0 /\ odd = 0 /\ oddKind = "dot" /\ bad = 0
  /\ taken = 0 /\ isle_num = 0 /\ island_group = <<>> /\ queue = <<>>
  /\ batches = <<>> /\ arrived = <<>> /\ drained = 0 /\ sources = <<>>
  /\ measured = <<>> /\ written = <<>> /\ fitted = <<>> /\ pqueue = FALSE
  /\ FitIdle
  /\ BkgIdle
  /\ MetaIdle
  /\ ShapeIdle

\* lines 1371-1375: the next island of the generator has len(i) <= 1
RidgeSkip ==
  /\ dpc = "loop"
  /\ fpc = "idle"
  /\ taken < Len(yielded)
  /\ Shape(yielded[taken + 1].pixels)[1] <= 1
  /\ taken' = taken + 1
  /\ UNCHANGED <<dpc, exitcode, cause, cores, doislandflux, measured, pqueue, nisl, odd, oddKind, bad,
                 isle_num, island_group, queue, batches, arrived, drained, sources,
                 written, fitted>>
  /\ UNCHANGED <<segvars, fitvars, bkgvars, metavars, shapevars>>

\* lines 1371-1384 and 1021-1033: the next island gets its id, fit_island is
\* called with it and takes its sub-images of the curvature and of the rms
RidgeFit ==
  /\ dpc = "loop"
  /\ taken < Len(yielded)
  /\ Shape(yielded[taken + 1].pixels)[1] > 1
  /\ fpc = "idle"
  /\ taken' = taken + 1
  /\ isle_num' = isle_num + 1
  /\ isle' = yielded[taken + 1].pixels
  /\ ishape' = Shape(isle')
  /\ icurve' = SubImage(curvature(data), yielded[taken + 1])
  /\ irms' = SubImage(rmsimg, yielded[taken + 1])
  /\ pixbeam' \in PixBeams
  /\ csigma' \in {0, estimate_background(curvature(data), DOMAIN data).rms}
  /\ iclip' = <<innerclip, outerclip>>
  /\ max_summits' \in MaxSummitsVals
  /\ fitflux' = doislandflux
  /\ fpc' = "call"
  /\ fitted' = Append(fitted, isle_num + 1)
  /\ UNCHANGED <<parinfo, mpfit_calls, mp_perror, fit_sources>>
  /\ UNCHANGED <<dpc, exitcode, cause, cores, doislandflux, measured, pqueue, nisl, odd, oddKind, bad,
                 island_group, queue, batches, arrived, drained, sources, written>>
  /\ UNCHANGED <<segvars, bkgvars, metavars, shapevars>>

\* lines 1384-1385: fit_island has returned: queue.append(res)
RidgeCollect ==
  /\ dpc = "loop"
  /\ fpc = "done"
  /\ queue' = Append(queue, fit_sources)
  /\ fpc' = "idle"
  /\ UNCHANGED <<isle, ishape, icurve, irms, pixbeam, csigma, iclip, max_summits, fitflux,
                 parinfo, mpfit_calls, mp_perror, fit_sources>>
  /\ UNCHANGED <<dpc, exitcode, cause, cores, doislandflux, measured, pqueue, nisl, odd, oddKind, bad,
                 taken, isle_num, island_group, batches, arrived, drained, sources, written,
                 fitted>>
  /\ UNCHANGED <<segvars, bkgvars, metavars, shapevars>>

\* line 1384: fit_island has raised; nothing catches the exception and the
\* interpreter exits with status 1
RidgeRaise ==
  /\ dpc = "loop"
  /\ fpc = "raised"
  /\ Exit(1, "exception")
  /\ UNCHANGED fitted

\* lines 1397-1405: the generator is exhausted: the results in the queue are
\* joined, the sorted catalogue is written and the list is returned
RidgeReturn ==
  /\ dpc = "loop"
  /\ fpc = "idle"
  /\ spc = "done"
  /\ taken = Len(yielded)
  /\ sources' = ExtendAll(queue, 1)
  /\ written' = SortedCatalogue(sources')
  /\ dpc' = "returned"
  /\ UNCHANGED <<exitcode, cause, cores, doislandflux, measured, pqueue, nisl, odd, oddKind, bad, taken,
                 isle_num, island_group, queue, batches, arrived, drained, fitted>>
  /\ UNCHANGED <<segvars, fitvars, bkgvars, metavars, shapevars>>

RidgeNext ==
  \/ SegStart \/ SegSkipPeak \/ SegYield \/ SegFinish
  \/ RidgeSkip \/ RidgeFit \/ RidgeCollect \/ RidgeRaise \/ RidgeReturn
  \/ FitNotFit \/ FitMpfit \/ FitMpfitRaises

SpecRidge == RidgeInit /\ [][RidgeNext]_vars

\* the pixels of the ridge and the axis it lies along
RidgeSet == { q \in DOMAIN data : data[q] > 0 }
RidgeAlong == IF Shape(data) = <<2, RidgeLen>> THEN 2 ELSE 1

\* the run is over: find_sources_in_image has returned its list
RidgeRunOver == dpc = "returned"

\* the one island of the image has the bounding box of the ridge
RidgeBox ==
  /\ Len(yielded) = 1
  /\ LET far == Cardinality(RidgeSet) - 1
         box == <<yielded[1].xmin, yielded[1].xmax, yielded[1].ymin, yielded[1].ymax>>
     IN  box = IF RidgeAlong = 2 THEN <<0, 0, 0, far>> ELSE <<0, far, 0, 0>>

OnePsfComponent ==
  /\ Cardinality(EmittedComponents) = 1
  /\ \A i \in EmittedComponents : HasBit(fit_sources[i].flags, FIXED2PSF)

\* C18 as stated: a straight one-pixel-wide ridge from the image corner
\* (xmin = xmax = 0, ymin = 0, ymax = 10 for the full length) is reported with
\* that bounding box and the run emits exactly one component for it, with
\* FIXED2PSF set; the same for a ridge along the other axis.
C18_Original ==
  (RidgeRunOver /\ Cardinality(RidgeSet) >= 2) => RidgeBox /\ OnePsfComponent

\* what the run does: the box is the stated one along either axis; the ridge
\* along the first axis gets island id 1 and one component fixed to the beam;
\* the ridge along the second axis has one row, is passed over by the driver
\* and emits nothing
C18_FirstAxisOnly ==
  (RidgeRunOver /\ Cardinality(RidgeSet) >= 2) =>
    /\ RidgeBox
    /\ (RidgeAlong = 1 =>
          isle_num = 1 /\ fitted = <<1>> /\ OnePsfComponent /\ sources = fit_sources)
    /\ (RidgeAlong = 2 =>
          isle_num = 0 /\ fitted = <<>> /\ fit_sources = <<>> /\ sources = <<>>)

\* ------------------------------------------- the run on a nearly empty image
QuietShape == <<2, 3>>

\* a lit pixel <<flux, rms>> under seed clip 2 and flood clip 1: below the seed
\* clip, at it, above it, and bright over an rms of NaN
QuietVals == { <<1, 1>>, <<2, 1>>, <<3, 1>>, <<3, NaN>> }

QuietPairs ==
  UNION { { [data |-> [q \in Pix(QuietShape[1], QuietShape[2]) |->
                         IF q \in L THEN f[q][1] ELSE 0],
             rms  |-> [q \in Pix(QuietShape[1], QuietShape[2]) |->
                         IF q \in L THEN f[q][2] ELSE 1]] :
              f \in [L -> QuietVals] } :
          L \in { K \in SUBSET Pix(QuietShape[1], QuietShape[2]) : Cardinality(K) <= MaxLit } }

\* the islands the generator of line 1371 yields on an image
YieldOf(img) == gen_flood_wrap(img.data, img.rms, 2, 1, QuietShape)

\* the images on which the generator yields nothing, or one island of one pixel
QuietImages ==
  { img \in QuietPairs :
      Len(YieldOf(img)) = 0 \/ (Len(YieldOf(img)) = 1 /\ Len(YieldOf(img)[1].blob) = 1) }

\* the program is started on an image; nisl is the number of islands the
\* generator yields on it, and a single island is the dot of the driver
QuietInit ==
  /\ \E img \in QuietImages :
       /\ data = img.data
       /\ rmsimg = img.rms
       /\ nisl = Len(YieldOf(img))
       /\ odd = Len(YieldOf(img))
  /\ innerclip = 2 /\ outerclip = 1
  /\ status = <<>> /\ peaks = <<>> /\ pk = 0 /\ lastqueue = <<>>
  /\ lastblob = <<>> /\ yielded = <<>> /\ spc = "idle"
  /\ dpc = "main" /\ exitcode = Running /\ cause = ""
  /\ cores \in {CoresNone} \cup (1 .. MaxCores)
  /\ doislandflux \in BOOLEAN
  /\ oddKind = "dot" /\ bad = 0
  /\ taken = 0 /\ isle_num = 0 /\ island_group = <<>> /\ queue = <<>>
  /\ batches = <<>> /\ arrived = <<>> /\ drained = 0 /\ sources = <<>>
  /\ measured = <<>> /\ written = <<>> /\ fitted = <<>> /\ pqueue = FALSE
  /\ FitIdle
  /\ BkgIdle
  /\ MetaIdle
  /\ ShapeIdle

QuietNext ==
  \/ MainCall \/ FindStartSerial \/ FindStartParallel \/ FindPollFallback
  \/ LoopSkip \/ LoopDone \/ DrainReturn \/ SerialReturn
  \/ MainEnd \/ MainTableAnn \/ MainTableAtpy

SpecQuiet == QuietInit /\ [][QuietNext]_vars

\* C19 as stated: when no pixel passes the seed threshold the generator
\* yields no island, no island gets an id, no batch is submitted, the list
\* returned by find_sources_in_image and the catalogue written are empty with
\* one worker and with several, and the program goes on to its end, which is
\* exit 0.
C19_Original ==
  Above(innerclip) = {} =>
    /\ nisl = 0
    /\ isle_num = 0 /\ island_group = <<>> /\ batches = <<>>
    /\ (dpc \in {"returned", "exited"} => sources = <<>> /\ written = <<>>)
    /\ (dpc = "exited" => exitcode = 0 /\ cause = "ok")
    /\ (dpc # "exited" => ENABLED <<QuietNext>>_vars)

\* what the program does: the empty list is returned in both paths and the
\* program reaches its end; the exit status is 0 unless a table was asked
\* for, and then it is 1 for every table but one atpy would have written
\* had it been installed
C19_EmptyUnlessTable ==
  Above(innerclip) = {} =>
    /\ nisl = 0
    /\ isle_num = 0 /\ island_group = <<>> /\ batches = <<>>
    /\ (dpc \in {"returned", "exited"} => sources = <<>> /\ written = <<>>)
    /\ (dpc = "exited" => \/ exitcode = 0 /\ cause = "ok"
                          \/ exitcode = 1 /\ cause = "table")
    /\ (dpc = "returned" => ENABLED MainEnd /\ ENABLED MainTableAnn /\ ENABLED MainTableAtpy)
    /\ (dpc # "exited" => ENABLED <<QuietNext>>_vars)

\* a run on such an image has ended with exit status 1
C19_TableCrash ==
  /\ dpc = "exited"
  /\ Above(innerclip) = {}
  /\ sources = <<>>
  /\ exitcode = 1

\* a run with several workers has ended on an image with pixels above the
\* flood clip, one of them bright over a NaN rms, and none above the seed clip
C19_Witness ==
  /\ dpc = "exited"
  /\ cores > 1
  /\ Above(innerclip) = {}
  /\ AtLeast(outerclip) # {}
  /\ \E q \in DOMAIN data : IsNaN(rmsimg[q]) /\ data[q] > 2

\* ------------------------------------------------- the limits of the centre
\* the summits estimate_parinfo() went through for the island of the run
IsleSummits ==
  SummitList(isle, irms, icurve, ishape, iclip[1], csigma,
             Min2(ishape[1], ishape[2]) <= 2 \/ HasBit(IsFlag(NonNanPix(isle)), FITERRSMALL))

\* the record of parameter name of component k
ParOf(k, name) == parinfo[CHOOSE n \in 1 .. Len(parinfo) :
                            parinfo[n].comp = k /\ parinfo[n].parname = name]

\* limits clipped to lo .. hi around the value, or one clipped point widened
\* by half a pixel on each side
ClippedTo(rec, lo, hi) ==
  \/ /\ lo <= rec.limits[1] /\ rec.limits[1] <= rec.value
     /\ rec.value <= rec.limits[2] /\ rec.limits[2] <= hi
  \/ /\ rec.limits[2] - rec.limits[1] = 1000
     /\ rec.value = rec.limits[1] + 500
     /\ lo <= rec.value /\ rec.value <= hi

\* C27 as stated: for every candidate the limits of xo and of yo are clipped
\* to the box of its summit, but for an axis whose limits collapse to one
\* point, and the initial centre lies within its limits.
C27_Original ==
  (fpc # "call" /\ Len(parinfo) > 0) =>
    \A k \in 0 .. NumSummits(parinfo) - 1 :
      LET s == IsleSummits[k + 1]
      IN  /\ ClippedTo(ParOf(k, "xo"), 1000 * s.xmin, 1000 * s.xmax)
          /\ ClippedTo(ParOf(k, "yo"), 1000 * s.ymin, 1000 * s.ymax)

\* what estimate_parinfo() does: xo is clipped to the box, the limits of yo
\* reach the box edges or beyond them on both sides, never inside the box
C27_SecondAxisWidened ==
  (fpc # "call" /\ Len(parinfo) > 0) =>
    \A k \in 0 .. NumSummits(parinfo) - 1 :
      LET s  == IsleSummits[k + 1]
          yo == ParOf(k, "yo")
      IN  /\ ClippedTo(ParOf(k, "xo"), 1000 * s.xmin, 1000 * s.xmax)
          /\ yo.limits[1] <= 1000 * s.ymin /\ yo.limits[1] <= yo.value
          /\ yo.limits[2] >= 1000 * s.ymax /\ yo.limits[2] >= yo.value

\* ------------------------------------------------- the mesh of the background
\* the <<min, max>> pairs of the boxes along the second (x) and first (y) axis
XEdges == MeshEdges(Shape(data)[2], mesh[1])
YEdges == MeshEdges(Shape(data)[1], mesh[2])

InEdge(v, e) == e[1] <= v /\ v < e[2]

\* along one axis the boxes hold every position once, one full box starts at
\* centre - width/2, and a width not below the size gives one box over the axis
AxisPartition(edges, img, width) ==
  /\ \A v \in 0 .. img - 1 :
       Cardinality({ i \in 1 .. Len(edges) : InEdge(v, edges[i]) }) = 1
  /\ \A i \in 1 .. Len(edges) : 0 <= edges[i][1] /\ edges[i][1] <= edges[i][2] /\ edges[i][2] <= img
  /\ width < img =>
       \E i \in 1 .. Len(edges) :
         edges[i] = <<img \div 2 - width \div 2, img \div 2 - width \div 2 + width>>
  /\ width >= img => edges = << <<0, img>> >>

\* the sizes and widths of one axis over which the boxes are compared
AxisSizes == 1 .. 7

\* the boxes partition an axis of every size under every width >= 1
EveryAxisPartition ==
  \A img \in AxisSizes : \A width \in 1 .. 8 :
    AxisPartition(MeshEdges(img, width), img, width)

\* every pixel has the pair estimated from the one box that holds it
PairOfItsTile ==
  \A q \in DOMAIN data :
    \A i \in 1 .. Len(XEdges) : \A j \in 1 .. Len(YEdges) :
      (InEdge(q[2], XEdges[i]) /\ InEdge(q[1], YEdges[j])) =>
        LET est == estimate_background(data, TileCells(data, XEdges[i], YEdges[j]))
        IN  rmsimg[q] = est.rms /\ bkgimg[q] = est.bkg

\* C26 as stated: for every mesh width the tiles partition the image, each
\* pixel receives the pair of its tile, one full tile starts at
\* centre - width/2, a width >= the size gives a single tile on that axis,
\* and a width that truncates to 0 is handled without a crash.
C26_Original ==
  (forced_rms = 0 /\ spc # "bkg") =>
    /\ spc # "crashed"
    /\ AxisPartition(XEdges, Shape(data)[2], mesh[1])
    /\ AxisPartition(YEdges, Shape(data)[1], mesh[2])
    /\ PairOfItsTile

\* what make_bkg_rms_image does: the same for every width >= 1, and a crash
\* before any tile is made when a width is 0
C26_FromWidthOne ==
  (forced_rms = 0 /\ spc # "bkg") =>
    IF mesh[1] >= 1 /\ mesh[2] >= 1
    THEN /\ spc # "crashed"
         /\ EveryAxisPartition
         /\ AxisPartition(XEdges, Shape(data)[2], mesh[1])
         /\ AxisPartition(YEdges, Shape(data)[1], mesh[2])
         /\ PairOfItsTile
    ELSE spc = "crashed" /\ rmsimg = <<>> /\ bkgimg = <<>>

\* ------------------------------------------------- the shared fitting data
\* the box of the island the fit was called with
FitBox == yielded[taken]

\* the part of a whole-image array that fit_island() slices for its island
SliceOf(img) ==
  [q \in DOMAIN isle |-> img[<<q[1] + FitBox.xmin, q[2] + FitBox.ymin>>]]

CurveSlice == LET dcurve == curvature(data) IN SliceOf(dcurve)

\* C28: once the generator has yielded an island the image, its rms and its
\* background are never written; a step of fit_island() leaves the island
\* sub-image, the beam and its slices of the curvature and of the rms as they
\* were; and at any time the slices a fit works on are those of the shared
\* arrays, while the segmenter keeps running.
C28_ReadOnly ==
  /\ [](fpc # "idle" =>
          /\ isle = FitBox.pixels
          /\ irms = SliceOf(rmsimg)
          /\ icurve = CurveSlice)
  /\ [][/\ Len(yielded) >= 1 => (data' = data /\ rmsimg' = rmsimg /\ bkgimg' = bkgimg)
        /\ fpc = "call" =>
             /\ isle' = isle /\ ishape' = ishape
             /\ icurve' = icurve /\ irms' = irms /\ pixbeam' = pixbeam]_vars

\* a fit has returned its sources while the generator had more to do
C28_Witness ==
  /\ fpc = "done"
  /\ Len(fit_sources) >= 1
  /\ mpfit_calls = 1
  /\ taken >= 1
  /\ isle = FitBox.pixels
  /\ isle_num = 1

\* ------------------------------------------------- the catalogue
\* the source numbers an island with this id has in a list of records
NumbersOf(sq, id) == { sq[i].source : i \in { k \in 1 .. Len(sq) : sq[k].island = id } }

\* the records of a list all differ in (island, source)
UniquePairs(sq) ==
  Cardinality({ <<sq[i].island, sq[i].source>> : i \in 1 .. Len(sq) }) = Len(sq)

\* (island, source) strictly ascending along the list
Ascending(sq) ==
  \A i \in 1 .. Len(sq) - 1 :
    \/ sq[i].island < sq[i + 1].island
    \/ sq[i].island = sq[i + 1].island /\ sq[i].source < sq[i + 1].source

\* C29: the ids 1, 2, ... are given without a gap to the islands the driver
\* keeps, in yield order; the records of an island in the catalogue are its
\* components 0 .. N-1 and, when asked for, its record -1, those of a batch
\* lost to an exception excepted; every (island, source) pair is there once;
\* and the written catalogue holds the same records in strictly ascending
\* (island, source) order, an island's record -1 before its components.
C29_UniqueSorted ==
  /\ isle_num = IdOf(taken)
  /\ \A i \in 1 .. Len(sources) : sources[i].island \in 1 .. isle_num
  /\ \A idx \in 1 .. taken :
       Kept(idx) =>
         LET n == NComp(idx)
             full == (0 .. n - 1) \cup (IF doislandflux /\ n >= 1 THEN {0 - 1} ELSE {})
             got == NumbersOf(sources, IdOf(idx))
         IN  /\ got \in {full, {}}
             /\ (dpc = "returned" /\ ~SomeFitRaises) => got = full
  /\ UniquePairs(sources)
  /\ dpc = "returned" =>
       /\ Ascending(written)
       /\ Len(written) = Len(sources)
       /\ SeqToSet(written) = SeqToSet(sources)

\* a catalogue has been written after an island was passed over: an island
\* with two components has its record -1 first, and the list the driver
\* returns is in another order
C29_Witness ==
  /\ dpc = "returned"
  /\ isle_num < taken
  /\ \E i \in 1 .. Len(written) - 2 :
       /\ written[i].source = 0 - 1
       /\ written[i + 1].source = 0
       /\ written[i + 2].source = 1
       /\ written[i + 2].island = written[i].island
  /\ written # sources

\* ------------------------------------------------- catalogs: the metadata
\* the latest second of the clock
MaxTick == 2

MetaKeys == {"DATE", "PROGRAM", "PROGVER", "AUTHOR"}
UserVals == {"mine", "theirs"}

\* the dictionaries a caller passes: any keys, any values
MetaDicts == UNION { [K -> UserVals] : K \in SUBSET MetaKeys }

\* strftime("%Y-%m-%d %H:%M:%S", gmtime()) at second t of the clock
StrfTime(t) == "2016-07-26 00:00:0" \o ToString(t)

\* "{0}-({1})".format(__version__, __date__)
ProgVer == "1.0" \o "-(" \o "2016-07-26" \o ")"

\* d[key] = value on a dictionary
SetItem(d, key, value) ==
  [k \in DOMAIN d \cup {key} |-> IF k = key THEN value ELSE d[k]]

\* update_meta_data(meta) at second t of the clock
update_meta_data(arg, t) ==
  LET m0 == IF arg.given THEN arg.dict ELSE <<>>
      m1 == IF "DATE" \notin DOMAIN m0 THEN SetItem(m0, "DATE", StrfTime(t)) ELSE m0
  IN  IF "PROGRAM" \notin DOMAIN m1
      THEN SetItem(SetItem(m1, "PROGRAM", "AegeanTools.catalogs"), "PROGVER", ProgVer)
      ELSE m1

MetaInit ==
  /\ \/ meta_arg = [given |-> FALSE, dict |-> <<>>]
     \/ \E d \in MetaDicts : meta_arg = [given |-> TRUE, dict |-> d]
  /\ meta_passed = (IF meta_arg.given THEN meta_arg.dict ELSE <<>>)
  /\ meta = <<>>
  /\ meta_first = <<>>
  /\ now \in 0 .. 1
  /\ mcalls = 0
  /\ SegIdle
  /\ DrvIdle
  /\ FitIdle
  /\ BkgIdle
  /\ ShapeIdle

\* the first call, on the caller's dictionary or on None; a dictionary that
\* was passed is changed in place and is the one returned
MetaUpdate ==
  /\ mcalls = 0
  /\ meta' = update_meta_data(meta_arg, now)
  /\ meta_arg' = (IF meta_arg.given THEN [given |-> TRUE, dict |-> meta'] ELSE meta_arg)
  /\ meta_first' = meta'
  /\ mcalls' = 1
  /\ UNCHANGED <<meta_passed, now>>
  /\ UNCHANGED <<segvars, drvvars, fitvars, bkgvars, shapevars>>

\* a second call, on the dictionary the first one returned
MetaUpdateAgain ==
  /\ mcalls = 1
  /\ meta' = update_meta_data([given |-> TRUE, dict |-> meta], now)
  /\ meta_arg' = (IF meta_arg.given THEN [given |-> TRUE, dict |-> meta'] ELSE meta_arg)
  /\ mcalls' = 2
  /\ UNCHANGED <<meta_passed, meta_first, now>>
  /\ UNCHANGED <<segvars, drvvars, fitvars, bkgvars, shapevars>>

\* a second passes
MetaTick ==
  /\ now < MaxTick
  /\ now' = now + 1
  /\ UNCHANGED <<meta_arg, meta_passed, meta, meta_first, mcalls>>
  /\ UNCHANGED <<segvars, drvvars, fitvars, bkgvars, shapevars>>

MetaNext == MetaUpdate \/ MetaUpdateAgain \/ MetaTick

SpecMeta == MetaInit /\ [][MetaNext]_vars

\* the dictionary the caller passed, as it was before the call; empty for None
GivenDict == meta_passed

\* the caller's dictionary and the returned one are one object
SameObject == (mcalls >= 1 /\ meta_arg.given) => meta_arg.dict = meta

Idempotent == mcalls = 2 => meta = meta_first

\* C30 as stated: the returned dictionary has the keys DATE, PROGRAM and
\* PROGVER, every key that was present keeps its value, and a second
\* application changes nothing.
C30_Original ==
  mcalls >= 1 =>
    /\ {"DATE", "PROGRAM", "PROGVER"} \subseteq DOMAIN meta_first
    /\ \A k \in DOMAIN GivenDict : meta_first[k] = GivenDict[k]
    /\ Idempotent

\* what update_meta_data does: DATE and PROGRAM are there; PROGVER is set,
\* over any value it had, exactly when PROGRAM was missing; every other key
\* keeps its value and a second application changes nothing
C30_ProgverWithProgram ==
  mcalls >= 1 =>
    /\ {"DATE", "PROGRAM"} \subseteq DOMAIN meta_first
    /\ DOMAIN meta_first =
         DOMAIN GivenDict \cup {"DATE", "PROGRAM"}
           \cup (IF "PROGRAM" \in DOMAIN GivenDict THEN {} ELSE {"PROGVER"})
    /\ \A k \in DOMAIN GivenDict \ {"PROGVER"} : meta_first[k] = GivenDict[k]
    /\ "PROGRAM" \notin DOMAIN GivenDict => meta_first["PROGVER"] = "1.0-(2016-07-26)"
    /\ ("PROGRAM" \in DOMAIN GivenDict /\ "PROGVER" \in DOMAIN GivenDict) =>
         meta_first["PROGVER"] = GivenDict["PROGVER"]
    /\ "DATE" \notin DOMAIN GivenDict => \E t \in 0 .. MaxTick : meta_first["DATE"] = StrfTime(t)
    /\ Idempotent

\* ---------------------------------------------------------------------------
\* fix_shape and pa_limit, statement by statement (lines 880-900 and
\* 1148-1154).  The angles pa_limit works on are python floats: a double is
\* written m * 2**e, with e = 0 for an integer and m = 1 or -1 for a power of
\* two from 2**62 on, whose neighbouring doubles are more than 360 apart.
\* ---------------------------------------------------------------------------
PaMax == 720
MaxExp == 63

Dbl(m, e) == [m |-> m, e |-> e]

\* x <= c for a double x and a small integer c
DblLE(x, c) == IF x.e = 0 THEN x.m <= c ELSE x.m < 0

\* x + c, rounded to the nearest double, for |c| <= 180: exact on the
\* integers; from 2**62 on the sum is nearer to x than to any other double
DblAdd(x, c) == IF x.e = 0 THEN Dbl(x.m + c, 0) ELSE x

\* the components at line 1148: axes in 1/1000 arcsec, a bearing in
\* (-180, 180], an error of the bearing that is -1 or the difference of two
\* bearings
ShapeSources ==
  { [a |-> ab[1], b |-> ab[2], err_a |-> er[1], err_b |-> er[2],
     pa |-> t, err_pa |-> et] :
      ab \in {0, 1000, 2000} \X {0, 1000, 2000},
      er \in { <<0 - 1, 0 - 1>>, <<100, 300>>, <<0 - 1, 300>> },
      t \in {0 - 179, 0 - 91, 0 - 90, 0 - 89, 0, 1, 89, 90, 91, 180},
      et \in {0 - 1, 1, 90, 91, 180, 270, 271, 359} }

\* the arguments of pa_limit called on its own: every integer up to PaMax
\* either way, and the powers of two from 2**62 to 2**MaxExp of either sign
PaInputs ==
  { Dbl(k, 0) : k \in (0 - PaMax) .. PaMax }
    \cup { Dbl(sg, x) : sg \in {0 - 1, 1}, x \in 62 .. MaxExp }

ShapeInit ==
  /\ \/ /\ source_in \in ShapeSources
        /\ source = source_in
        /\ pa_arg = Dbl(0, 0) /\ lim_pa = Dbl(0, 0)
        /\ pa_for = "pa"
        /\ shpc = "fix"
     \/ /\ source_in = <<>> /\ source = <<>>
        /\ pa_arg \in PaInputs
        /\ lim_pa = pa_arg
        /\ pa_for = "arg"
        /\ shpc = "up"
  /\ SegIdle
  /\ DrvIdle
  /\ FitIdle
  /\ BkgIdle
  /\ MetaIdle

\* lines 1149-1151: fix_shape(source), then pa_limit is called with source.pa
ShapeFix ==
  /\ shpc = "fix"
  /\ source' = fix_shape(source)
  /\ pa_arg' = Dbl(source'.pa, 0)
  /\ lim_pa' = pa_arg'
  /\ shpc' = "up"
  /\ UNCHANGED <<source_in, pa_for>>
  /\ UNCHANGED <<segvars, drvvars, fitvars, bkgvars, metavars>>

\* line 896: the test of `while pa<=-90`
PaUpTest ==
  /\ shpc = "up"
  /\ shpc' = (IF DblLE(lim_pa, 0 - 90) THEN "up_body" ELSE "down")
  /\ UNCHANGED <<source_in, source, pa_arg, lim_pa, pa_for>>
  /\ UNCHANGED <<segvars, drvvars, fitvars, bkgvars, metavars>>

\* line 897: pa+=180
PaUpBody ==
  /\ shpc = "up_body"
  /\ lim_pa' = DblAdd(lim_pa, 180)
  /\ shpc' = "up"
  /\ UNCHANGED <<source_in, source, pa_arg, pa_for>>
  /\ UNCHANGED <<segvars, drvvars, fitvars, bkgvars, metavars>>

\* line 898: the test of `while pa>90`
PaDownTest ==
  /\ shpc = "down"
  /\ shpc' = (IF ~DblLE(lim_pa, 90) THEN "down_body" ELSE "ret")
  /\ UNCHANGED <<source_in, source, pa_arg, lim_pa, pa_for>>
  /\ UNCHANGED <<segvars, drvvars, fitvars, bkgvars, metavars>>

\* line 899: pa-=180
PaDownBody ==
  /\ shpc = "down_body"
  /\ lim_pa' = DblAdd(lim_pa, 0 - 180)
  /\ shpc' = "down"
  /\ UNCHANGED <<source_in, source, pa_arg, pa_for>>
  /\ UNCHANGED <<segvars, drvvars, fitvars, bkgvars, metavars>>

\* line 900: return pa, to a caller outside fit_island
PaReturn ==
  /\ shpc = "ret"
  /\ pa_for = "arg"
  /\ shpc' = "done"
  /\ UNCHANGED <<source_in, source, pa_arg, lim_pa, pa_for>>
  /\ UNCHANGED <<segvars, drvvars, fitvars, bkgvars, metavars>>

\* lines 1151-1154: source.pa = pa_limit(source.pa); a positive err_pa goes
\* through pa_limit next
ShapePa ==
  /\ shpc = "ret"
  /\ pa_for = "pa"
  /\ source' = [source EXCEPT !.pa = lim_pa.m]
  /\ IF source.err_pa > 0
     THEN /\ pa_arg' = Dbl(source.err_pa, 0)
          /\ lim_pa' = pa_arg'
          /\ pa_for' = "err_pa"
          /\ shpc' = "up"
     ELSE /\ shpc' = "done"
          /\ UNCHANGED <<pa_arg, lim_pa, pa_for>>
  /\ UNCHANGED source_in
  /\ UNCHANGED <<segvars, drvvars, fitvars, bkgvars, metavars>>

\* line 1154: source.err_pa = abs(pa_limit(source.err_pa))
ShapeErrPa ==
  /\ shpc = "ret"
  /\ pa_for = "err_pa"
  /\ source' = [source EXCEPT !.err_pa = Abs(lim_pa.m)]
  /\ shpc' = "done"
  /\ UNCHANGED <<source_in, pa_arg, lim_pa, pa_for>>
  /\ UNCHANGED <<segvars, drvvars, fitvars, bkgvars, metavars>>

ShapeNext ==
  \/ ShapeFix \/ PaUpTest \/ PaUpBody \/ PaDownTest \/ PaDownBody
  \/ PaReturn \/ ShapePa \/ ShapeErrPa

ShapeSteps == ShapeInit /\ [][ShapeNext]_vars

\* the interpreter runs its one thread on: a statement that can be executed
\* is executed
SpecShape == ShapeSteps /\ WF_vars(ShapeNext)

\* the component has left line 1154 with a >= b >= 0 and -90 < pa <= 90; its
\* axes and their errors are exchanged, and 90 added to pa, exactly when it
\* came with a < b; pa differs from where it started by a multiple of 180
ShapedRecord ==
  (shpc = "done" /\ source_in # <<>>) =>
    /\ source.a >= source.b /\ source.b >= 0
    /\ source.pa > 0 - 90 /\ source.pa <= 90
    /\ IF source_in.a < source_in.b
       THEN /\ source.a = source_in.b /\ source.b = source_in.a
            /\ source.err_a = source_in.err_b /\ source.err_b = source_in.err_a
            /\ (source.pa - (source_in.pa + 90)) % 180 = 0
            /\ source.pa = pa_limit(source_in.pa + 90)
       ELSE /\ source.a = source_in.a /\ source.b = source_in.b
            /\ source.err_a = source_in.err_a /\ source.err_b = source_in.err_b
            /\ (source.pa - source_in.pa) % 180 = 0
            /\ source.pa = pa_limit(source_in.pa)
    /\ IF source_in.err_pa > 0
       THEN source.err_pa = Abs(pa_limit(source_in.err_pa))
       ELSE source.err_pa = source_in.err_pa

\* pa_limit has returned, to any caller, a value in (-90, 90] that differs
\* from its argument by a multiple of 180
WrappedAngle ==
  shpc \in {"ret", "done"} =>
    /\ lim_pa.e = 0 /\ pa_arg.e = 0
    /\ lim_pa.m > 0 - 90 /\ lim_pa.m <= 90
    /\ (lim_pa.m - pa_arg.m) % 180 = 0
    /\ lim_pa.m = pa_limit(pa_arg.m)

\* C12: every record emitted by fit_island satisfies a >= b >= 0 and
\* -90 < pa <= 90: fix_shape swaps a and b (and their errors) and adds 90 to
\* pa whenever a < b, and pa_limit then returns a value in (-90, 90] that
\* differs from its input by a multiple of 180, terminating for every finite
\* input.
C12_Original ==
  /\ []ShapedRecord
  /\ []WrappedAngle
  /\ <>(shpc = "done")

\* C12 as the code has it: the same for the records and for the value
\* pa_limit returns; pa_limit returns for every integer argument, which the
\* angles fit_island passes are in this model, and for a power of two from
\* 2**62 on, which adding 180 leaves as it is, its loop never ends.
C12_WrapsWhereItSteps ==
  /\ []ShapedRecord
  /\ []WrappedAngle
  /\ [](pa_arg.e = 0 => <>(shpc = "done"))
  /\ [](pa_arg.e # 0 => shpc \notin {"ret", "done"})

\* C12 happens: a component that came with a < b, different errors on the
\* two axes and a bearing that is above 90 once 90 is added has been through
\* fix_shape and through both calls of pa_limit, the second on an error of
\* the bearing above 90
C12_Shaped ==
  /\ shpc = "done"
  /\ source_in # <<>>
  /\ source_in.a < source_in.b
  /\ source_in.err_a # source_in.err_b
  /\ source_in.pa + 90 > 90
  /\ source_in.err_pa > 90
  /\ pa_for = "err_pa"

====
